---- MODULE Spec2Model ----
(***************************************************************************)
(* State-machine model of the vuh array subsystem: BasicArray, HostArray   *)
(* and DeviceArray objects living on one vuh::Device, the device          *)
(* resources they own (buffers, memory allocations, mappings) and the      *)
(* host <-> device transfers of DeviceArray.                               *)
(*                                                                         *)
(* Memory is modelled at the granularity of storage units ("bytes") so     *)
(* that byte offsets and byte counts handed to the copy routine mean what  *)
(* they mean in the code.  Host-visible memory that is not host-coherent   *)
(* has two views, the device's (dev) and the host's (host): they are       *)
(* reconciled only by vkFlushMappedMemoryRanges and                        *)
(* vkInvalidateMappedMemoryRanges.                                         *)
(***************************************************************************)
EXTENDS Integers, Sequences, FiniteSets, TLC

\* ------------------------------------------------------------------ bounds
MaxN == 2          \* largest element count of an array
MaxHandles == 3    \* buffer handles / memory handles the driver hands out
SizeofT == 2       \* sizeof(T): storage units per element
Minus1 == -1       \* uint32_t(-1): "no such memory type", "no such queue family"
MaxReleases == 1   \* command buffers left for releaseComputeCmdBuffer() calls
MaxFamilies == 2   \* queue families a physical device reports
VkFlagsBits == 4   \* width of VkFlags here; the bits below the highest are the
                   \* queue flags a driver reports (eGraphics, eCompute, eTransfer)

Slots == {"a1", "a2"}              \* places where a named array object can live
Temp == "tmp"                      \* place of the temporary of the running call
AllSlots == Slots \cup {Temp}
Handles == 1..MaxHandles
Null == 0                          \* VK_NULL_HANDLE / nullptr
Kinds == {"Basic", "Host", "Device"}

\* vk::MemoryPropertyFlagBits
DeviceLocal == "eDeviceLocal"
HostVisible == "eHostVisible"
HostCoherent == "eHostCoherent"
HostCached == "eHostCached"

\* Memory type tables of the physical devices considered (type index 0 is the
\* first entry): a discrete GPU, an integrated GPU whose first device-local
\* type is host-visible but not coherent, and an integrated GPU with
\* coherent memory only.
MemConfigs ==
  { << {DeviceLocal}, {HostVisible, HostCoherent}, {HostVisible, HostCached} >>,
    << {DeviceLocal, HostVisible, HostCached}, {DeviceLocal, HostVisible, HostCoherent} >>,
    << {DeviceLocal, HostVisible, HostCoherent}, {HostVisible, HostCoherent, HostCached} >> }

\* memoryTypeBits a buffer can report: every type, or every type but type 0
TypeBitsOf(types, all) == IF all THEN 0..(Len(types) - 1) ELSE 1..(Len(types) - 1)

VARIABLES
  memTypes,   \* memory types of the physical device (_physdev.getMemoryProperties())
  arrays,     \* slot -> array object (or no object)
  bufs,       \* buffer handle -> buffer
  mems,       \* memory handle -> allocation
  last,       \* what the last operation did: device calls, result, error
  devices,    \* slot -> vuh::Device object (or no object)
  vk,         \* logical devices, command pools and command buffers of the driver
  dlast,      \* what the last operation on a Device did
  xfer        \* the copies that threads have in flight on the Device in slot d1

devVars == << devices, vk, dlast >>
vars == << memTypes, arrays, bufs, mems, last, devices, vk, dlast, xfer >>

\* ------------------------------------------------------------ objects
DeadBuf == [live |-> FALSE, size |-> 0, typeBits |-> {}, mem |-> Null]
DeadMem == [live |-> FALSE, mapped |-> FALSE, flags |-> {}, size |-> 0,
            dev |-> << >>, host |-> << >>, dirty |-> {}]

\* an array object; life = "none" when no object lives in the slot
NoObject == [life |-> "none", kind |-> "Basic", buf |-> Null, size_bytes |-> 0,
             mem |-> Null, flags |-> {}, size |-> 0, ptr |-> FALSE,
             require_unmap_flush |-> FALSE]

\* BasicArray(): null buffer, _size_bytes = 0, null _mem, empty _flags
BasicArrayDefault(kind, n) ==
  [NoObject EXCEPT !.life = "live", !.kind = kind, !.size = n]

\* ------------------------------------------------------------ call log
Ev(call, h, h2, size, soff, doff) ==
  [call |-> call, h |-> h, h2 |-> h2, size |-> size, soff |-> soff, doff |-> doff]

\* the device as one operation sees it, with the operation's log and result
Dev0 ==
  [arr |-> arrays, bufs |-> bufs, mems |-> mems, tr |-> << >>, exc |-> "none",
   ub |-> FALSE, ret |-> Null, out |-> << >>, funCalls |-> 0]

\* F applied to the value of v: one statement after another.  (The state
\* an operator is given is always a value computed before, never a pending
\* expression.)
Bind(v, F(_)) == CHOOSE y \in {F(x) : x \in {v}} : TRUE

Log(d, e) == [d EXCEPT !.tr = Append(@, e)]
Throw(d, kind) == [d EXCEPT !.exc = kind]
Ok(d) == d.exc = "none"

FreeHandles(tbl) == {h \in Handles : ~tbl[h].live}
FreshHandle(tbl) == CHOOSE h \in FreeHandles(tbl) : \A g \in FreeHandles(tbl) : h <= g

\* ------------------------------------------------------------ elements
Encode(v) == [i \in 1..SizeofT |-> (v \div (2^(i-1))) % 2]
RECURSIVE DecodeFrom(_, _)
DecodeFrom(bs, i) == IF i > Len(bs) THEN 0 ELSE bs[i] * (2^(i-1)) + DecodeFrom(bs, i + 1)
Decode(bs) == DecodeFrom(bs, 1)
Fill(n, b) == [j \in 1..n |-> b]

\* ------------------------------------------------------------ vk::Device calls
isCoherentMem(m) == HostCoherent \in m.flags

\* vkCreateBuffer
createBuffer(d, size, typeBits) ==
  LET h == FreshHandle(d.bufs) IN
  [d EXCEPT
     !.tr = Append(@, Ev("createBuffer", h, Null, size, 0, 0)),
     !.bufs[h] = [live |-> TRUE, size |-> size, typeBits |-> typeBits, mem |-> Null],
     !.ret = h]

\* vkDestroyBuffer
destroyBuffer(d, b) ==
  [d EXCEPT
     !.tr = Append(@, Ev("destroyBuffer", b, Null, 0, 0, 0)),
     !.ub = @ \/ (b # Null /\ ~d.bufs[b].live),
     !.bufs = IF b # Null /\ d.bufs[b].live THEN [@ EXCEPT ![b] = DeadBuf] ELSE @]

\* Device::memoryProperties(id)
memoryProperties(id) == memTypes[id + 1]

\* vkAllocateMemory: the contents of a new allocation are whatever the
\* driver left there (garbage unit g)
allocateMemory(d, size, memory_id, g) ==
  LET h == FreshHandle(d.mems) IN
  [d EXCEPT
     !.tr = Append(@, Ev("allocateMemory", h, Null, size, 0, 0)),
     !.mems[h] = [live |-> TRUE, mapped |-> FALSE, flags |-> memoryProperties(memory_id),
                  size |-> size, dev |-> Fill(size, g), host |-> Fill(size, g),
                  dirty |-> {}],
     !.ret = h]

\* vkFreeMemory: a null handle is ignored, a mapped allocation is unmapped
freeMemory(d, m) ==
  [d EXCEPT
     !.tr = Append(@, Ev("freeMemory", m, Null, 0, 0, 0)),
     !.ub = @ \/ (m # Null /\ ~d.mems[m].live),
     !.mems = IF m # Null /\ d.mems[m].live THEN [@ EXCEPT ![m] = DeadMem] ELSE @]

\* vkBindBufferMemory
bindBufferMemory(d, b, m) ==
  [d EXCEPT !.tr = Append(@, Ev("bindBufferMemory", b, m, 0, 0, 0)),
            !.bufs[b].mem = m]

\* memory that a host mapping call may name
Mappable(d, m) == m # Null /\ d.mems[m].live /\ HostVisible \in d.mems[m].flags
IsMapped(d, m) == m # Null /\ d.mems[m].live /\ d.mems[m].mapped

\* vkMapMemory: mapping dead, non host-visible or already mapped memory is invalid
vkMapMemory(d, m) ==
  LET ok == Mappable(d, m) /\ ~d.mems[m].mapped IN
  [d EXCEPT
     !.tr = Append(@, Ev("mapMemory", m, Null, 0, 0, 0)),
     !.ub = @ \/ ~ok,
     !.mems = IF ok THEN [@ EXCEPT ![m].mapped = TRUE] ELSE @]

\* vkUnmapMemory: the memory must be mapped
vkUnmapMemory(d, m) ==
  LET ok == IsMapped(d, m) IN
  [d EXCEPT
     !.tr = Append(@, Ev("unmapMemory", m, Null, 0, 0, 0)),
     !.ub = @ \/ ~ok,
     !.mems = IF ok THEN [@ EXCEPT ![m].mapped = FALSE] ELSE @]

\* vkFlushMappedMemoryRanges over the whole allocation: host writes become
\* visible to the device
flushMappedMemoryRanges(d, m) ==
  LET ok == IsMapped(d, m)
      mm == d.mems[m]
  IN [d EXCEPT
        !.tr = Append(@, Ev("flushMappedMemoryRanges", m, Null, 0, 0, 0)),
        !.ub = @ \/ ~ok,
        !.mems = IF ok
                 THEN [@ EXCEPT
                         ![m].dev = [j \in 1..mm.size |->
                                       IF j \in mm.dirty THEN mm.host[j] ELSE mm.dev[j]],
                         ![m].dirty = {}]
                 ELSE @]

\* vkInvalidateMappedMemoryRanges over the whole allocation: device writes
\* become visible to the host.  Host writes that were not flushed before are
\* undefined afterwards: either they had already been written back (evict)
\* or they are lost.
InvalidatedUnits(mm, evict) ==
  [j \in 1..mm.size |-> IF j \in mm.dirty /\ evict THEN mm.host[j] ELSE mm.dev[j]]
invalidateMappedMemoryRanges(d, m, evict) ==
  LET ok == IsMapped(d, m) IN
  [d EXCEPT
     !.tr = Append(@, Ev("invalidateMappedMemoryRanges", m, Null, 0, 0, 0)),
     !.ub = @ \/ ~ok,
     !.mems = IF ok
              THEN [@ EXCEPT ![m].dev = InvalidatedUnits(d.mems[m], evict),
                             ![m].host = InvalidatedUnits(d.mems[m], evict),
                             ![m].dirty = {}]
              ELSE @]

\* host stores through a mapped pointer: elements vals at element offset off.
\* The log keeps the host's accesses next to the device calls.
HostWrite(d, m, off, vals) ==
  LET ok == IsMapped(d, m)
      mm == d.mems[m]
      lo == off * SizeofT
      n == Len(vals) * SizeofT
      hit(j) == lo < j /\ j <= lo + n
      unit(j) == Encode(vals[((j - lo - 1) \div SizeofT) + 1])[((j - lo - 1) % SizeofT) + 1]
  IN [d EXCEPT
        !.tr = Append(@, Ev("hostWrite", m, Null, Len(vals), off, 0)),
        !.ub = @ \/ ~ok \/ lo + n > mm.size,
        !.mems = IF ~ok THEN @
                 ELSE [@ EXCEPT
                         ![m].host = [j \in 1..mm.size |-> IF hit(j) THEN unit(j) ELSE mm.host[j]],
                         ![m].dev = IF isCoherentMem(mm)
                                    THEN [j \in 1..mm.size |->
                                            IF hit(j) THEN unit(j) ELSE mm.dev[j]]
                                    ELSE mm.dev,
                         ![m].dirty = IF isCoherentMem(mm) THEN {}
                                      ELSE mm.dirty \cup {j \in 1..mm.size : hit(j)}]]

\* host loads through a mapped pointer: count elements from element offset
\* off; units outside the allocation read as g
HostReadVals(d, m, off, count, g) ==
  LET mm == d.mems[m]
      unit(j) == IF j <= mm.size THEN mm.host[j] ELSE g
  IN [k \in 1..count |->
        Decode([i \in 1..SizeofT |-> unit((off + k - 1) * SizeofT + i)])]
HostReadOob(d, m, off, count) ==
  ~IsMapped(d, m) \/ (count > 0 /\ (off + count) * SizeofT > d.mems[m].size)

\* ------------------------------------------------------------ Device
\* Device::selectMemory: first memory type allowed by the buffer's
\* memoryTypeBits whose property flags contain all of properties; -1 if none
\* a selection content with a type that has some of the properties asked for
RECURSIVE selectMemoryAnyFlag(_, _, _)
selectMemoryAnyFlag(i, typeBits, properties) ==
  IF ~(i < Len(memTypes)) THEN Minus1
  ELSE IF i \in typeBits /\ (properties \cap memTypes[i + 1]) # {} THEN i
  ELSE selectMemoryAnyFlag(i + 1, typeBits, properties)

\* a selection that does not look at the buffer's memoryTypeBits
RECURSIVE selectMemoryAnyType(_, _, _)
selectMemoryAnyType(i, typeBits, properties) ==
  IF ~(i < Len(memTypes)) THEN Minus1
  ELSE IF (properties \cap memTypes[i + 1]) = properties THEN i
  ELSE selectMemoryAnyType(i + 1, typeBits, properties)

RECURSIVE selectMemoryFrom(_, _, _)
selectMemoryFrom(i, typeBits, properties) ==
  IF ~(i < Len(memTypes)) THEN Minus1
  ELSE IF i \in typeBits /\ (properties \cap memTypes[i + 1]) = properties THEN i
  ELSE selectMemoryFrom(i + 1, typeBits, properties)
selectMemory(d, buffer, properties) ==
  selectMemoryFrom(0, d.bufs[buffer].typeBits, properties)

\* Device::alloc(buf, memory_id)
alloc(d, buf, memory_id, g) == allocateMemory(d, d.bufs[buf].size, memory_id, g)

\* ------------------------------------------------------------ allocator
\* What the environment decides during one operation: the call that fails
\* (at most one, the operation ends there), the kind of error the allocator
\* raises, the memoryTypeBits of a buffer created, the garbage in new
\* memory, and what the host caches did (evict, stale).
FailPoints == {"none", "makeBuffer", "allocMemory", "bindBufferMemory", "copyBuf"}
ErrKinds == {"runtime_error", "other"}
NoFail(typeBits) ==
  [fail |-> "none", errKind |-> "runtime_error", typeBits |-> typeBits, g |-> 0,
   evict |-> FALSE, stale |-> FALSE]

\* memory property flags of the allocator's property class
AllocFlags(class) ==
  CASE class = "Device" -> {DeviceLocal}
    [] class = "Host" -> {HostVisible}
    [] class = "HostCoherent" -> {HostVisible, HostCoherent}
    [] class = "HostCached" -> {HostVisible, HostCached}
AllocClasses == {"Device", "Host", "HostCoherent", "HostCached"}

\* Alloc::makeBuffer(device, size_bytes, usage)
makeBuffer(d, size_bytes, o) ==
  IF o.fail = "makeBuffer" THEN Throw(d, "runtime_error")
  ELSE createBuffer(d, size_bytes, o.typeBits)

\* Alloc::allocMemory(device, buffer, properties): a memory type with all the
\* requested flags, allowed for the buffer; an error if there is none
allocMemory(d, class, buffer, properties, o) ==
  LET id == selectMemory(d, buffer, AllocFlags(class) \cup properties) IN
  IF id = Minus1 \/ o.fail = "allocMemory" THEN Throw(d, o.errKind)
  ELSE alloc(d, buffer, id, o.g)

\* Alloc::memoryProperties(device): the flags of the memory obtained
allocMemoryProperties(d, mem) == d.mems[mem].flags

\* ------------------------------------------------------------ BasicArray
\* catch(std::runtime_error&)
CatchesError(kind) == kind = "runtime_error"

\* a release() that destroys the buffer before it frees the memory
releaseBufferFirst(d, s) ==
  IF d.arr[s].buf # Null
  THEN Bind(destroyBuffer(d, d.arr[s].buf), LAMBDA d1 : freeMemory(d1, d.arr[s].mem))
  ELSE d

\* BasicArray::release() of the object in slot s
release(d, s) ==
  IF d.arr[s].buf # Null
  THEN Bind(freeMemory(d, d.arr[s].mem), LAMBDA d1 : destroyBuffer(d1, d.arr[s].buf))
  ELSE d

\* the handler of the constructor: release() and rethrow; the object never
\* comes to life
BasicArrayCtorCatch(d, s) ==
  IF CatchesError(d.exc)
  THEN [release(d, s) EXCEPT !.arr[s] = NoObject]
  ELSE [d EXCEPT !.arr[s] = NoObject]

\* BasicArray::BasicArray(device, size_bytes, properties, usage) into slot s
BasicArrayCtor(d, s, kind, class, size_bytes, properties, o) ==
  Bind(makeBuffer(d, size_bytes, o), LAMBDA d1 :
    IF ~Ok(d1) THEN d1
    ELSE
      Bind([d1 EXCEPT !.arr[s] = [NoObject EXCEPT !.life = "live", !.kind = kind,
                                                  !.buf = d1.ret,
                                                  !.size_bytes = size_bytes]],
           LAMBDA d2 :
      Bind(allocMemory(d2, class, d2.arr[s].buf, properties, o), LAMBDA d3 :
        IF ~Ok(d3) THEN BasicArrayCtorCatch(d3, s)
        ELSE
          Bind([d3 EXCEPT !.arr[s].mem = d3.ret,
                          !.arr[s].flags = allocMemoryProperties(d3, d3.ret)],
               LAMBDA d4 :
            IF o.fail = "bindBufferMemory"
            THEN Bind(Throw(Log(d4, Ev("bindBufferMemory", d4.arr[s].buf, d4.arr[s].mem,
                                       0, 0, 0)), "runtime_error"),
                      LAMBDA d5 : BasicArrayCtorCatch(d5, s))
            ELSE bindBufferMemory(d4, d4.arr[s].buf, d4.arr[s].mem)))))

\* BasicArray::~BasicArray()
BasicArrayDtor(d, s) == [release(d, s) EXCEPT !.arr[s] = NoObject]

\* BasicArray::BasicArray(BasicArray&& other): the object in slot s is made
\* from the one in slot o
BasicArrayMoveCtor(d, s, o, kind) ==
  [d EXCEPT !.arr[s] = [NoObject EXCEPT !.life = "live", !.kind = kind,
                                       !.buf = d.arr[o].buf,
                                       !.size_bytes = d.arr[o].size_bytes,
                                       !.mem = d.arr[o].mem,
                                       !.flags = d.arr[o].flags],
            !.arr[o].buf = Null]

\* BasicArray::operator=(BasicArray&& other)
BasicArrayMoveAssign(d, s, o) ==
  Bind(release(d, s), LAMBDA d1 :
  Bind([d1 EXCEPT !.arr[s].size_bytes = d1.arr[o].size_bytes,
                  !.arr[s].mem = d1.arr[o].mem,
                  !.arr[s].flags = d1.arr[o].flags], LAMBDA d2 :
  Bind([d2 EXCEPT !.arr[s].buf = d2.arr[o].buf], LAMBDA d3 :
    [d3 EXCEPT !.arr[o].buf = Null])))

\* std::swap(static_cast<Base&>(a), static_cast<Base&>(b)): a temporary made
\* by move construction, two move assignments, the temporary destroyed
swapBase(d, a, b) ==
  Bind(BasicArrayMoveCtor(d, Temp, a, "Basic"), LAMBDA d1 :
  Bind(BasicArrayMoveAssign(d1, a, b), LAMBDA d2 :
  Bind(BasicArrayMoveAssign(d2, b, Temp), LAMBDA d3 :
    BasicArrayDtor(d3, Temp))))

\* BasicArray::isHostVisible / isHostCoherent
isHostVisible(d, s) == HostVisible \in d.arr[s].flags
isHostCoherent(d, s) == HostCoherent \in d.arr[s].flags

\* assert(isHostVisible())
AssertHostVisible(d, s) == IF isHostVisible(d, s) THEN d ELSE [d EXCEPT !.ub = TRUE]

\* BasicArray::flush_mapped_writes()
flush_mapped_writes(d, s, o) ==
  Bind(AssertHostVisible(d, s), LAMBDA d1 :
    IF ~isHostCoherent(d1, s)
    THEN invalidateMappedMemoryRanges(d1, d1.arr[s].mem, o.evict)
    ELSE d1)

\* BasicArray::invalidate_mapped_cache()
invalidate_mapped_cache(d, s) ==
  IF ~isHostCoherent(d, s)
  THEN flushMappedMemoryRanges(d, d.arr[s].mem)
  ELSE d

\* BasicArray::mapMemory<T>()
mapMemory(d, s) ==
  Bind(AssertHostVisible(d, s), LAMBDA d1 : vkMapMemory(d1, d1.arr[s].mem))

\* BasicArray::unmapMemory()
unmapMemory(d, s) == vkUnmapMemory(d, d.arr[s].mem)

\* ------------------------------------------------------------ HostArray
\* HostArray::host_data(): map on first access
HostArray_host_data(d, s) ==
  Bind(AssertHostVisible(d, s), LAMBDA d0 :
    IF ~d0.arr[s].ptr
    THEN Bind(mapMemory(d0, s), LAMBDA d1 :
         Bind([d1 EXCEPT !.arr[s].ptr = TRUE], LAMBDA d2 :
           invalidate_mapped_cache(d2, s)))
    ELSE d0)

\* HostArray::unmap_host_data()
HostArray_unmap_host_data(d, s) ==
  IF d.arr[s].require_unmap_flush
  THEN [unmapMemory(d, s) EXCEPT !.arr[s].ptr = FALSE]
  ELSE d

\* HostArray::HostArray(device, n_elements, flags_memory, flags_buffer)
HostArrayCtor(d, s, class, n, properties, o) ==
  Bind(BasicArrayCtor(d, s, "Host", class, n * SizeofT, properties, o), LAMBDA d1 :
    IF ~Ok(d1) THEN d1
    ELSE [mapMemory(d1, s) EXCEPT !.arr[s].ptr = TRUE, !.arr[s].size = n])

\* the tail shared by the initializing constructors: the writes through
\* begin(), then flush_mapped_writes() and unmap_host_data()
HostArrayInit(d, s, vals, o) ==
  Bind(HostArray_host_data(d, s), LAMBDA d1 :
  Bind(HostWrite(d1, d1.arr[s].mem, 0, vals), LAMBDA d2 :
  Bind(flush_mapped_writes(d2, s, o), LAMBDA d3 :
    HostArray_unmap_host_data(d3, s))))

\* HostArray::HostArray(device, n_elements, value, ...)
HostArrayCtorFill(d, s, class, n, value, o) ==
  Bind(HostArrayCtor(d, s, class, n, {}, o), LAMBDA d1 :
    IF ~Ok(d1) THEN d1 ELSE HostArrayInit(d1, s, [k \in 1..n |-> value], o))

\* HostArray::HostArray(device, begin, end, ...)
HostArrayCtorRange(d, s, class, vals, o) ==
  Bind(HostArrayCtor(d, s, class, Len(vals), {}, o), LAMBDA d1 :
    IF ~Ok(d1) THEN d1 ELSE HostArrayInit(d1, s, vals, o))

\* the functions handed to the transforming calls
Funs == {"identity", "successor"}
ApplyFun(f, v) == IF f = "identity" THEN v ELSE (v + 1) % (2^SizeofT)
Transform(f, vals) == [k \in 1..Len(vals) |-> ApplyFun(f, vals[k])]

\* HostArray::HostArray(device, begin, end, fun, ...)
HostArrayCtorTransform(d, s, class, vals, f, o) ==
  Bind(HostArrayCtor(d, s, class, Len(vals), {}, o), LAMBDA d1 :
    IF ~Ok(d1) THEN d1
    ELSE Bind(Transform(f, vals), LAMBDA tv : HostArrayInit(d1, s, tv, o)))

\* HostArray::HostArray(device, size, fun, ...): fun is called once with
\* begin() and stores funVals there
HostArrayCtorFun(d, s, class, size, funVals, o) ==
  Bind(HostArrayCtor(d, s, class, size, {}, o), LAMBDA d1 :
    IF ~Ok(d1) THEN d1
    ELSE Bind([d1 EXCEPT !.funCalls = @ + 1], LAMBDA d2 :
           HostArrayInit(d2, s, funVals, o)))

\* a destructor that lets go of the object and keeps its resources
HostArrayDtorKeeps(d, s) == [d EXCEPT !.arr[s] = NoObject]

\* HostArray::~HostArray(), then ~BasicArray()
HostArrayDtor(d, s) ==
  Bind(IF d.arr[s].ptr THEN unmapMemory(d, s) ELSE d, LAMBDA d1 : BasicArrayDtor(d1, s))

\* HostArray::HostArray(HostArray&& o)
HostArrayMoveCtor(d, s, o) ==
  Bind(BasicArrayMoveCtor(d, s, o, "Host"), LAMBDA d1 :
    [d1 EXCEPT !.arr[s].ptr = d1.arr[o].ptr, !.arr[s].size = d1.arr[o].size,
               !.arr[o].ptr = FALSE])

\* HostArray::swap(HostArray& o)
HostArraySwap(d, s, o) ==
  Bind(swapBase(d, s, o), LAMBDA d1 :
    [d1 EXCEPT !.arr[s].ptr = d1.arr[o].ptr, !.arr[o].ptr = d1.arr[s].ptr,
               !.arr[s].size = d1.arr[o].size, !.arr[o].size = d1.arr[s].size])

\* HostArray::operator=(HostArray&& o)
HostArrayMoveAssign(d, s, o) == HostArraySwap(d, s, o)

\* ------------------------------------------------------------ copyBuf
\* copyBuf(device, src, dst, size_bytes, srcOffset, dstOffset): one buffer
\* copy on the transfer queue, waited for.  Units of the source range that
\* lie outside the source allocation read as garbage, units of the
\* destination range outside the destination allocation are not stored.
\* The host's view of non-coherent destination memory may stay stale.
CopiedUnits(S, old, size, srcOffset, dstOffset, g) ==
  [j \in 1..Len(old) |->
     IF dstOffset < j /\ j <= dstOffset + size
     THEN IF srcOffset + j - dstOffset <= S.size THEN S.dev[srcOffset + j - dstOffset] ELSE g
     ELSE old[j]]
copyBuf(d, src, dst, size, srcOffset, dstOffset, o) ==
  LET d1 == Log(d, Ev("copyBuf", src, dst, size, srcOffset, dstOffset)) IN
  IF o.fail = "copyBuf" THEN Throw(d1, "runtime_error")
  ELSE IF src = Null \/ dst = Null THEN [d1 EXCEPT !.ub = TRUE]
  ELSE IF ~d.bufs[src].live \/ ~d.bufs[dst].live THEN [d1 EXCEPT !.ub = TRUE]
  ELSE
    LET sm == d.bufs[src].mem
        dm == d.bufs[dst].mem
        S == d.mems[sm]
        D == d.mems[dm]
        oob == srcOffset + size > d.bufs[src].size \/ dstOffset + size > d.bufs[dst].size
        fresh == isCoherentMem(D) \/ HostVisible \notin D.flags \/ ~o.stale
    IN [d1 EXCEPT !.mems[dm].dev = CopiedUnits(S, D.dev, size, srcOffset, dstOffset, o.g),
                  !.mems[dm].host = IF fresh
                                    THEN CopiedUnits(S, D.host, size, srcOffset, dstOffset, o.g)
                                    ELSE D.host,
                  !.ub = d.ub \/ oob]

\* ------------------------------------------------------------ DeviceArray
Min(a, b) == IF a < b THEN a ELSE b

\* a host_data() that maps whether or not the pointer is cached
host_dataRemaps(d, s) ==
  Bind(AssertHostVisible(d, s), LAMBDA d0 :
    Bind(mapMemory(d0, s), LAMBDA d1 :
    Bind([d1 EXCEPT !.arr[s].ptr = TRUE], LAMBDA d2 :
      invalidate_mapped_cache(d2, s))))

\* DeviceArray::host_data()
host_data(d, s) ==
  Bind(AssertHostVisible(d, s), LAMBDA d0 :
    IF ~d0.arr[s].ptr
    THEN Bind(mapMemory(d0, s), LAMBDA d1 :
         Bind([d1 EXCEPT !.arr[s].ptr = TRUE], LAMBDA d2 :
           invalidate_mapped_cache(d2, s)))
    ELSE d0)

\* DeviceArray::unmap_host_data()
unmap_host_data(d, s) ==
  IF d.arr[s].require_unmap_flush
  THEN [unmapMemory(d, s) EXCEPT !.arr[s].ptr = FALSE]
  ELSE d

\* DeviceArray::DeviceArray(device, n_elements, flags_memory, flags_buffer)
DeviceArrayCtor(d, s, n, properties, o) ==
  Bind(BasicArrayCtor(d, s, "Device", "Device", n * SizeofT, properties, o), LAMBDA d1 :
    IF ~Ok(d1) THEN d1 ELSE [d1 EXCEPT !.arr[s].size = n])

\* a destructor that frees the memory without unmapping it
DeviceArrayDtorNoUnmap(d, s) == BasicArrayDtor(d, s)

\* DeviceArray::~DeviceArray(), then ~BasicArray()
DeviceArrayDtor(d, s) ==
  Bind(IF d.arr[s].ptr THEN unmapMemory(d, s) ELSE d, LAMBDA d1 : BasicArrayDtor(d1, s))

\* DeviceArray::DeviceArray(DeviceArray&& o)
DeviceArrayMoveCtor(d, s, o) ==
  Bind(BasicArrayMoveCtor(d, s, o, "Device"), LAMBDA d1 :
    [d1 EXCEPT !.arr[s].ptr = d1.arr[o].ptr, !.arr[s].size = d1.arr[o].size,
               !.arr[o].ptr = FALSE])

\* DeviceArray::swap(DeviceArray& o)
DeviceArraySwap(d, s, o) ==
  Bind(swapBase(d, s, o), LAMBDA d1 :
    [d1 EXCEPT !.arr[s].ptr = d1.arr[o].ptr, !.arr[o].ptr = d1.arr[s].ptr,
               !.arr[s].size = d1.arr[o].size, !.arr[o].size = d1.arr[s].size])

\* DeviceArray::operator=(DeviceArray&& o)
DeviceArrayMoveAssign(d, s, o) == DeviceArraySwap(d, s, o)

\* the host-visible branch of the writing calls: host_data(), the stores
\* from element offset, flush_mapped_writes(), unmap_host_data()
WriteMapped(d, s, offset, vals, calls, o) ==
  Bind(host_data(d, s), LAMBDA d1 :
  Bind(HostWrite([d1 EXCEPT !.funCalls = @ + calls], d1.arr[s].mem, offset, vals), LAMBDA d2 :
  Bind(flush_mapped_writes(d2, s, o), LAMBDA d3 :
    unmap_host_data(d3, s))))

\* the loop of the index based constructor from index i on: fun(i) is stored
\* through stage_it, which points at element i of the staging array
RECURSIVE IndexedStores(_, _, _, _)
IndexedStores(d, f, i, n) ==
  IF i >= n THEN d
  ELSE Bind([Log(d, Ev("fun", Null, Null, 0, i, 0)) EXCEPT !.funCalls = @ + 1], LAMBDA d1 :
       Bind(HostWrite(d1, d1.arr[Temp].mem, i, << ApplyFun(f, i) >>), LAMBDA d2 :
         IndexedStores(d2, f, i + 1, n)))

\* the body of the index based constructor once stage_buffer exists; the
\* staging array is destroyed when the body is left
StageIndexed(dS, s, n, f, o) ==
  Bind(HostArray_host_data(dS, Temp), LAMBDA d1 :
  Bind(IndexedStores(d1, f, 0, n), LAMBDA d2 :
  Bind(copyBuf(d2, d2.arr[Temp].buf, d2.arr[s].buf, d2.arr[s].size_bytes, 0, 0, o),
       LAMBDA d3 : HostArrayDtor(d3, Temp))))

\* an index based constructor that stores through the array's own mapping
\* when its memory is host-visible
DeviceArrayCtorIndexedMapped(d, s, n, f, properties, o, oS) ==
  Bind(DeviceArrayCtor(d, s, n, properties, o), LAMBDA d1 :
    IF ~Ok(d1) THEN d1
    ELSE WriteMapped(d1, s, 0, [k \in 1..n |-> ApplyFun(f, k - 1)], n, oS))

\* DeviceArray::DeviceArray(device, n_elements, fun, ...): delegates to the
\* constructor of an uninitialized array; when the body throws after that,
\* the destructor of the array runs
DeviceArrayCtorIndexed(d, s, n, f, properties, o, oS) ==
  Bind(DeviceArrayCtor(d, s, n, properties, o), LAMBDA d1 :
    IF ~Ok(d1) THEN d1
    ELSE Bind(HostArrayCtor(d1, Temp, "HostCoherent", n, {}, oS), LAMBDA dS :
         Bind(IF Ok(dS) THEN StageIndexed(dS, s, n, f, oS) ELSE dS, LAMBDA d2 :
           IF Ok(d2) THEN d2 ELSE DeviceArrayDtor(d2, s))))

\* the staged branches: stage_buf lives in the temporary slot; it is
\* destroyed when the branch is left, by return or by exception
StageThenCopyTo(dStaged, s, size, dstOffset, o) ==
  IF ~Ok(dStaged) THEN dStaged
  ELSE Bind(copyBuf(dStaged, dStaged.arr[Temp].buf, dStaged.arr[s].buf, size, 0,
                    dstOffset, o),
            LAMBDA d1 : HostArrayDtor(d1, Temp))

\* fromHost(begin, end) that stages whatever the memory is
fromHostStagedOnly(d, s, vals, o) ==
  Bind(HostArrayCtorRange(d, Temp, "HostCoherent", vals, o), LAMBDA dS :
    StageThenCopyTo(dS, s, d.arr[s].size_bytes, 0, o))

\* DeviceArray::fromHost(begin, end)
fromHost(d, s, vals, o) ==
  IF isHostVisible(d, s)
  THEN WriteMapped(d, s, 0, vals, 0, o)
  ELSE Bind(HostArrayCtorRange(d, Temp, "HostCoherent", vals, o), LAMBDA dS :
         StageThenCopyTo(dS, s, d.arr[s].size_bytes, 0, o))

\* DeviceArray::fromHost(begin, end, fun)
fromHostTransform(d, s, vals, f, o) ==
  IF isHostVisible(d, s)
  THEN Bind(Transform(f, vals), LAMBDA tv : WriteMapped(d, s, 0, tv, 0, o))
  ELSE Bind(HostArrayCtorTransform(d, Temp, "HostCoherent", vals, f, o), LAMBDA dS :
         StageThenCopyTo(dS, s, d.arr[s].size_bytes, 0, o))

\* DeviceArray::fromHost(fun, offset, size_): fun is called once with a
\* pointer and stores funVals there
fromHostFun(d, s, funVals, offset, size_, o) ==
  IF offset >= d.arr[s].size THEN d
  ELSE IF isHostVisible(d, s)
  THEN WriteMapped(d, s, offset, funVals, 1, o)
  ELSE Bind(HostArrayCtorFun(d, Temp, "HostCoherent",
                             IF size_ # 0 THEN size_ ELSE d.arr[s].size, funVals, o),
            LAMBDA dS :
       Bind(IF size_ # 0
            THEN Min(size_ * SizeofT, dS.arr[Temp].size_bytes)
            ELSE d.arr[s].size_bytes - offset * SizeofT,
            LAMBDA size : StageThenCopyTo(dS, s, size, offset * SizeofT, o)))

\* fromHost(begin, end, offset) that returns early only for offset > size()
fromHostOffsetPastEnd(d, s, vals, offset, o) ==
  IF offset > d.arr[s].size THEN d
  ELSE IF isHostVisible(d, s)
  THEN WriteMapped(d, s, offset, vals, 0, o)
  ELSE Bind(HostArrayCtorRange(d, Temp, "HostCoherent", vals, o), LAMBDA dS :
       Bind(Min(d.arr[s].size_bytes - offset * SizeofT, dS.arr[Temp].size_bytes),
            LAMBDA size : StageThenCopyTo(dS, s, size, offset * SizeofT, o)))

\* DeviceArray::fromHost(begin, end, offset)
fromHostOffset(d, s, vals, offset, o) ==
  IF offset >= d.arr[s].size THEN d
  ELSE IF isHostVisible(d, s)
  THEN WriteMapped(d, s, offset, vals, 0, o)
  ELSE Bind(HostArrayCtorRange(d, Temp, "HostCoherent", vals, o), LAMBDA dS :
       Bind(Min(d.arr[s].size_bytes - offset * SizeofT, dS.arr[Temp].size_bytes),
            LAMBDA size : StageThenCopyTo(dS, s, size, offset * SizeofT, o)))

\* count elements read through the mapped pointer of slot t from element
\* offset off (by fun, when the call hands a pointer to fun)
ReadThrough(d, t, off, count, calls, o) ==
  [d EXCEPT !.tr = Append(@, Ev("hostRead", d.arr[t].mem, Null, count, off, 0)),
            !.out = HostReadVals(d, d.arr[t].mem, off, count, o.g),
            !.ub = @ \/ HostReadOob(d, d.arr[t].mem, off, count),
            !.funCalls = @ + calls]

\* HostArray::operator[](i): *(begin() + i), read
HostArraySubscript(d, s, i, o) ==
  Bind(HostArray_host_data(d, s), LAMBDA d1 : ReadThrough(d1, s, i, 1, 0, o))

\* the host-visible branch of the reading calls: host_data(),
\* invalidate_mapped_cache(), the reads, unmap_host_data()
ReadMapped(d, s, off, count, calls, o) ==
  Bind(host_data(d, s), LAMBDA d0 :
  Bind(invalidate_mapped_cache(d0, s), LAMBDA d1 :
  Bind(ReadThrough(d1, s, off, count, calls, o), LAMBDA d2 :
    unmap_host_data(d2, s))))

\* the staged branch of the reading calls: stage_buf of n elements, copyBuf
\* of size units from srcOffset, the reads from stage_buf, stage_buf
\* destroyed
ReadStaged(d, s, n, size, srcOffset, off, count, calls, o) ==
  Bind(HostArrayCtor(d, Temp, "HostCached", n, {}, o), LAMBDA dS :
    IF ~Ok(dS) THEN dS
    ELSE Bind(copyBuf(dS, dS.arr[s].buf, dS.arr[Temp].buf, size, srcOffset, 0, o),
              LAMBDA d1 :
           IF ~Ok(d1) THEN HostArrayDtor(d1, Temp)
           ELSE Bind(HostArray_host_data(d1, Temp), LAMBDA d2 :
                Bind(ReadThrough(d2, Temp, off, count, calls, o), LAMBDA d3 :
                  HostArrayDtor(d3, Temp)))))

\* DeviceArray::toHost(copy_to): std::copy_n / std::copy
toHost(d, s, o) ==
  IF isHostVisible(d, s)
  THEN ReadMapped(d, s, 0, d.arr[s].size, 0, o)
  ELSE ReadStaged(d, s, d.arr[s].size, d.arr[s].size_bytes, 0, 0, d.arr[s].size, 0, o)

\* toHost(copy_to, size, fun) that leaves the last element out
toHostSizedShort(d, s, size, f, o) ==
  Bind(IF isHostVisible(d, s)
       THEN ReadMapped(d, s, 0, size - 1, 0, o)
       ELSE ReadStaged(d, s, size, d.arr[s].size_bytes, 0, 0, size - 1, 0, o),
       LAMBDA d1 : [d1 EXCEPT !.out = Transform(f, d1.out)])

\* DeviceArray::toHost(copy_to, size, fun): std::transform
toHostSized(d, s, size, f, o) ==
  Bind(IF isHostVisible(d, s)
       THEN ReadMapped(d, s, 0, size, 0, o)
       ELSE ReadStaged(d, s, size, d.arr[s].size_bytes, 0, 0, size, 0, o),
       LAMBDA d1 : [d1 EXCEPT !.out = Transform(f, d1.out)])

\* DeviceArray::toHost(copy_to, fun)
toHostFun(d, s, f, o) == toHostSized(d, s, d.arr[s].size, f, o)

\* DeviceArray::toHost(fun, offset): fun is called once with a pointer to
\* element offset and reads the elements from there to the end
toHostCallback(d, s, offset, o) ==
  IF offset >= d.arr[s].size THEN d
  ELSE IF isHostVisible(d, s)
  THEN ReadMapped(d, s, offset, d.arr[s].size - offset, 1, o)
  ELSE ReadStaged(d, s, d.arr[s].size, d.arr[s].size_bytes, 0,
                  offset, d.arr[s].size - offset, 1, o)

\* DeviceArray::rangeToHost(offset_begin, offset_end, dst_begin)
rangeToHost(d, s, offset_begin, offset_end, o) ==
  IF isHostVisible(d, s)
  THEN ReadMapped(d, s, offset_begin, offset_end - offset_begin, 0, o)
  ELSE ReadStaged(d, s, offset_end - offset_begin, d.arr[s].size_bytes, offset_begin,
                  0, offset_end - offset_begin, 0, o)

\* ------------------------------------------------------------ vuh::Device
DevSlots == {"d1", "d2"}           \* places where a Device object can live
FamilyIds == {0, 1, Minus1}        \* queue family ids handed to the constructor
\* the handles the driver hands out: one logical device per object, two
\* command pools and two command buffers per logical device, and the command
\* buffers of the releaseComputeCmdBuffer() calls
LDevHandles == 1..Cardinality(DevSlots)
PoolHandles == 1..(2 * Cardinality(DevSlots))
CmdBufHandles == 1..(2 * Cardinality(DevSlots) + MaxReleases)

\* no Device object; the handles of a new object are null
NoDevice ==
  [life |-> "none", handle |-> Null, physdev |-> Null,
   cmdpool_compute |-> Null, cmdbuf_compute |-> Null,
   cmdpool_transfer |-> Null, cmdbuf_transfer |-> Null,
   cmp_family_id |-> 0, tfr_family_id |-> 0]
\* handles the driver has not handed out yet; a handle is handed out once
NoLDev == [live |-> FALSE, used |-> FALSE, queues |-> {}]
NoPool == [live |-> FALSE, used |-> FALSE, family |-> 0, dev |-> Null]
NoCmdBuf == [live |-> FALSE, used |-> FALSE, pool |-> Null]

\* vk::QueueFlags as the number VkFlags(flags) is: eGraphics 1, eCompute 2,
\* eTransfer 4
eCompute == 2
eTransfer == 4
QueueFlagValues == 0..(2 ^ (VkFlagsBits - 1) - 1)
\* std::numeric_limits<VkFlags>::max()
MaxVkFlags == 2 ^ VkFlagsBits - 1
RECURSIVE BitAnd(_, _)
BitAnd(a, b) ==
  IF a = 0 \/ b = 0 THEN 0
  ELSE 2 * BitAnd(a \div 2, b \div 2) + (IF a % 2 = 1 /\ b % 2 = 1 THEN 1 ELSE 0)

\* the loop of getFamilyID() from family i (counted from 0) on
RECURSIVE FamilyLoop(_, _, _, _, _, _)
FamilyLoop(queue_families, tgtFlag, i, r, minFlags, strict) ==
  IF i >= Len(queue_families) THEN r
  ELSE LET q == queue_families[i + 1]
           flags_i == q.queueFlags
           below == IF strict THEN flags_i < minFlags ELSE flags_i <= minFlags
       IN IF 0 < q.queueCount /\ BitAnd(tgtFlag, flags_i) # 0 /\ below
          THEN FamilyLoop(queue_families, tgtFlag, i + 1, i, flags_i, strict)
          ELSE FamilyLoop(queue_families, tgtFlag, i + 1, r, minFlags, strict)

\* a getFamilyID() that moves on to a later family with the same flags
getFamilyIDLast(queue_families, tgtFlag) ==
  FamilyLoop(queue_families, tgtFlag, 0, Minus1, MaxVkFlags, FALSE)

\* getFamilyID(queue_families, tgtFlag)
getFamilyID(queue_families, tgtFlag) ==
  FamilyLoop(queue_families, tgtFlag, 0, Minus1, MaxVkFlags, TRUE)

\* the driver and the Device objects as one operation sees them
DevW0 ==
  [objs |-> devices, ldevs |-> vk.ldevs, pools |-> vk.pools, cbufs |-> vk.cbufs,
   tr |-> << >>, exc |-> "none", ub |-> FALSE, ret |-> Null]
FreeIn(tbl) == {h \in DOMAIN tbl : ~tbl[h].used}
FreshIn(tbl) == CHOOSE h \in FreeIn(tbl) : \A k \in FreeIn(tbl) : h <= k

\* createDevice(): the logical device with one queue of the compute family
\* and, when it differs, one of the transfer family; a family id of -1 falls
\* back to family 0 (compute) or to the compute family (transfer)
createDevice(w, compute_family_id, transfer_family_id, fails, kind) ==
  LET c == IF compute_family_id = Minus1 THEN 0 ELSE compute_family_id
      t == IF transfer_family_id = Minus1 THEN c ELSE transfer_family_id
  IN IF fails THEN Throw(Log(w, Ev("createDevice", Null, Null, 0, c, t)), kind)
     ELSE [w EXCEPT !.tr = Append(@, Ev("createDevice", FreshIn(w.ldevs), Null, 0, c, t)),
                    !.ldevs[FreshIn(w.ldevs)] = [live |-> TRUE, used |-> TRUE, queues |-> {c, t}],
                    !.ret = FreshIn(w.ldevs)]

\* vk::Device::createCommandPool: the family must be one the logical device
\* was created with queues for
createCommandPool(w, dev, family, fails, kind) ==
  IF fails THEN Throw(Log(w, Ev("createCommandPool", Null, dev, 0, family, 0)), kind)
  ELSE [w EXCEPT
          !.tr = Append(@, Ev("createCommandPool", FreshIn(w.pools), dev, 0, family, 0)),
          !.ub = @ \/ dev = Null \/ ~w.ldevs[dev].live \/ family \notin w.ldevs[dev].queues,
          !.pools[FreshIn(w.pools)] =
            [live |-> TRUE, used |-> TRUE, family |-> family, dev |-> dev],
          !.ret = FreshIn(w.pools)]

\* allocCmdBuffer(device, pool): one primary command buffer of the pool
allocCmdBuffer(w, dev, pool, fails, kind) ==
  IF fails THEN Throw(Log(w, Ev("allocateCommandBuffers", Null, pool, 0, 0, 0)), kind)
  ELSE [w EXCEPT
          !.tr = Append(@, Ev("allocateCommandBuffers", FreshIn(w.cbufs), pool, 0, 0, 0)),
          !.ub = @ \/ dev = Null \/ pool = Null \/ ~w.pools[pool].live,
          !.cbufs[FreshIn(w.cbufs)] = [live |-> TRUE, used |-> TRUE, pool |-> pool],
          !.ret = FreshIn(w.cbufs)]

\* vk::Device::freeCommandBuffers(pool, 1, &buf): the pool must be valid, the
\* buffer null or a live buffer of that pool
freeCommandBuffers(w, pool, buf) ==
  LET ok == /\ pool # Null /\ w.pools[pool].live
            /\ buf = Null \/ (w.cbufs[buf].live /\ w.cbufs[buf].pool = pool)
  IN [w EXCEPT !.tr = Append(@, Ev("freeCommandBuffers", buf, pool, 0, 0, 0)),
               !.ub = @ \/ ~ok,
               !.cbufs = IF ok /\ buf # Null THEN [@ EXCEPT ![buf].live = FALSE] ELSE @]

\* vk::Device::destroyCommandPool(pool): a null pool is ignored; the command
\* buffers of the pool are freed with it
destroyCommandPool(w, pool) ==
  LET ok == pool # Null /\ w.pools[pool].live IN
  [w EXCEPT !.tr = Append(@, Ev("destroyCommandPool", pool, Null, 0, 0, 0)),
            !.ub = @ \/ (pool # Null /\ ~ok),
            !.pools = IF ok THEN [@ EXCEPT ![pool].live = FALSE] ELSE @,
            !.cbufs = IF ok
                      THEN [h \in CmdBufHandles |->
                              IF w.cbufs[h].pool = pool
                              THEN [w.cbufs[h] EXCEPT !.live = FALSE]
                              ELSE w.cbufs[h]]
                      ELSE @]

\* vk::Device::destroy(): the pools of the device must be gone
vkDeviceDestroy(w, dev) ==
  LET ok == dev # Null /\ w.ldevs[dev].live IN
  [w EXCEPT !.tr = Append(@, Ev("destroyDevice", dev, Null, 0, 0, 0)),
            !.ub = @ \/ ~ok \/ \E h \in PoolHandles : w.pools[h].live /\ w.pools[h].dev = dev,
            !.ldevs = IF ok THEN [@ EXCEPT ![dev].live = FALSE] ELSE @]

\* Device::release()
DeviceRelease(w, s) ==
  IF w.objs[s].handle = Null THEN w
  ELSE
    Bind(IF w.objs[s].tfr_family_id # w.objs[s].cmp_family_id
         THEN Bind(freeCommandBuffers(w, w.objs[s].cmdpool_transfer,
                                      w.objs[s].cmdbuf_transfer), LAMBDA w1 :
                destroyCommandPool(w1, w1.objs[s].cmdpool_transfer))
         ELSE w, LAMBDA w2 :
    Bind(freeCommandBuffers(w2, w2.objs[s].cmdpool_compute, w2.objs[s].cmdbuf_compute),
         LAMBDA w3 :
    Bind(destroyCommandPool(w3, w3.objs[s].cmdpool_compute), LAMBDA w4 :
      vkDeviceDestroy(w4, w4.objs[s].handle))))

\* the errors the constructor's handler catches: catch(vk::Error&)
DevErrKinds == {"vkError", "other"}
DevFailPoints ==
  {"none", "createDevice", "createCommandPool1", "allocCmdBuffer1", "createCommandPool2",
   "allocCmdBuffer2"}
DevNoFail == [fail |-> "none", errKind |-> "vkError"]
DevOracles(points) ==
  {DevNoFail} \cup {[fail |-> f, errKind |-> k] : f \in points \ {"none"}, k \in DevErrKinds}

\* the try block of the constructor
DeviceCtorTry(w, s, o) ==
  Bind(createCommandPool(w, w.objs[s].handle, w.objs[s].cmp_family_id,
                         o.fail = "createCommandPool1", o.errKind), LAMBDA w1 :
    IF ~Ok(w1) THEN w1 ELSE
  Bind([w1 EXCEPT !.objs[s].cmdpool_compute = w1.ret], LAMBDA w2 :
  Bind(allocCmdBuffer(w2, w2.objs[s].handle, w2.objs[s].cmdpool_compute,
                      o.fail = "allocCmdBuffer1", o.errKind), LAMBDA w3 :
    IF ~Ok(w3) THEN w3 ELSE
  Bind([w3 EXCEPT !.objs[s].cmdbuf_compute = w3.ret], LAMBDA w4 :
    IF w4.objs[s].tfr_family_id = w4.objs[s].cmp_family_id
    THEN [w4 EXCEPT !.objs[s].cmdpool_transfer = w4.objs[s].cmdpool_compute,
                    !.objs[s].cmdbuf_transfer = w4.objs[s].cmdbuf_compute]
    ELSE
      Bind(createCommandPool(w4, w4.objs[s].handle, w4.objs[s].tfr_family_id,
                             o.fail = "createCommandPool2", o.errKind), LAMBDA w5 :
        IF ~Ok(w5) THEN w5 ELSE
      Bind([w5 EXCEPT !.objs[s].cmdpool_transfer = w5.ret], LAMBDA w6 :
      Bind(allocCmdBuffer(w6, w6.objs[s].handle, w6.objs[s].cmdpool_transfer,
                          o.fail = "allocCmdBuffer2", o.errKind), LAMBDA w7 :
        IF ~Ok(w7) THEN w7 ELSE [w7 EXCEPT !.objs[s].cmdbuf_transfer = w7.ret])))))))

\* the handler of the constructor: release() and rethrow; an error that is
\* not a vk::Error passes it; the object never comes to life
DeviceCtorCatch(w, s) ==
  IF w.exc = "vkError"
  THEN [DeviceRelease(w, s) EXCEPT !.objs[s] = NoDevice]
  ELSE [w EXCEPT !.objs[s] = NoDevice]

\* Device::Device(instance, physdevice, computeFamilyId, transferFamilyId,
\* layers, extensions) into slot s
DeviceCtor(w, s, computeFamilyId, transferFamilyId, o) ==
  Bind(createDevice(w, computeFamilyId, transferFamilyId, o.fail = "createDevice",
                    o.errKind), LAMBDA w1 :
    IF ~Ok(w1) THEN w1 ELSE
  Bind([w1 EXCEPT !.objs[s] = [NoDevice EXCEPT !.life = "live", !.handle = w1.ret,
                                              !.physdev = 1,
                                              !.cmp_family_id = computeFamilyId,
                                              !.tfr_family_id = transferFamilyId]],
       LAMBDA w2 :
  Bind(DeviceCtorTry(w2, s, o), LAMBDA w3 :
    IF Ok(w3) THEN w3 ELSE DeviceCtorCatch(w3, s))))

\* Device::~Device()
DeviceDtor(w, s) == [DeviceRelease(w, s) EXCEPT !.objs[s] = NoDevice]

\* a move constructor that leaves the handle of the other object in place
DeviceMoveCtorKeepsHandle(w, s, o) == [w EXCEPT !.objs[s] = w.objs[o]]

\* Device::Device(Device&& other): the object in slot s is made from the one
\* in slot o
DeviceMoveCtor(w, s, o) ==
  [w EXCEPT !.objs[s] = w.objs[o], !.objs[o].handle = Null]

\* swap(Device& d1, Device& d2)
DeviceSwap(w, d1, d2) ==
  [w EXCEPT !.objs[d1] = w.objs[d2], !.objs[d2] = w.objs[d1]]

\* Device::operator=(Device&& o)
DeviceMoveAssign(w, s, o) == DeviceSwap(w, s, o)

\* a releaseComputeCmdBuffer() without the std::swap: the new buffer is
\* returned, the old one kept
releaseComputeCmdBufferNoSwap(w, s, o) ==
  Bind(allocCmdBuffer(w, w.objs[s].handle, w.objs[s].cmdpool_compute,
                      o.fail = "allocCmdBuffer1", o.errKind), LAMBDA w1 :
    IF ~Ok(w1) THEN w1 ELSE
    IF w1.objs[s].tfr_family_id = w1.objs[s].cmp_family_id
    THEN [w1 EXCEPT !.objs[s].cmdbuf_transfer = w1.objs[s].cmdbuf_compute]
    ELSE w1)

\* a releaseComputeCmdBuffer() that leaves the transfer command buffer alone
releaseComputeCmdBufferNoAlias(w, s, o) ==
  Bind(allocCmdBuffer(w, w.objs[s].handle, w.objs[s].cmdpool_compute,
                      o.fail = "allocCmdBuffer1", o.errKind), LAMBDA w1 :
    IF ~Ok(w1) THEN w1
    ELSE [w1 EXCEPT !.objs[s].cmdbuf_compute = w1.ret,
                    !.ret = w1.objs[s].cmdbuf_compute])

\* Device::releaseComputeCmdBuffer()
releaseComputeCmdBuffer(w, s, o) ==
  Bind(allocCmdBuffer(w, w.objs[s].handle, w.objs[s].cmdpool_compute,
                      o.fail = "allocCmdBuffer1", o.errKind), LAMBDA w1 :
    IF ~Ok(w1) THEN w1 ELSE
  Bind([w1 EXCEPT !.objs[s].cmdbuf_compute = w1.ret,
                  !.ret = w1.objs[s].cmdbuf_compute], LAMBDA w2 :
    IF w2.objs[s].tfr_family_id = w2.objs[s].cmp_family_id
    THEN [w2 EXCEPT !.objs[s].cmdbuf_transfer = w2.objs[s].cmdbuf_compute]
    ELSE w2))

\* Device::freeCmdBuffer(buf, transfer)
freeCmdBuffer(w, s, buf, transfer) ==
  freeCommandBuffers(w, IF transfer THEN w.objs[s].cmdpool_transfer
                        ELSE w.objs[s].cmdpool_compute, buf)

\* Device::Device(instance, physdevice, familyProperties, layers, extensions):
\* the family ids are those getFamilyID finds for eCompute and eTransfer
DeviceCtorFamilies(w, s, familyProperties, o) ==
  DeviceCtor(w, s, getFamilyID(familyProperties, eCompute),
             getFamilyID(familyProperties, eTransfer), o)

\* vk::Device::getQueue(queueFamilyIndex, queueIndex): the family must be one
\* the logical device was created with, and one queue was requested of each
getQueue(w, dev, queueFamilyIndex, queueIndex) ==
  [w EXCEPT
     !.tr = Append(@, Ev("getQueue", dev, Null, 0, queueFamilyIndex, queueIndex)),
     !.ub = @ \/ dev = Null \/ ~w.ldevs[dev].live
              \/ queueFamilyIndex \notin w.ldevs[dev].queues \/ queueIndex # 0,
     !.ret = queueFamilyIndex]

\* Device::computeQueue(i), Device::transferQueue(i)
computeQueue(w, s, i) == getQueue(w, w.objs[s].handle, w.objs[s].cmp_family_id, i)
transferQueue(w, s, i) == getQueue(w, w.objs[s].handle, w.objs[s].tfr_family_id, i)

\* Device::hasSeparateQueues()
hasSeparateQueues(w, s) == w.objs[s].cmp_family_id = w.objs[s].tfr_family_id

\* a transferCmdBuffer() that hands out the compute command buffer
computeCmdBuffer(w, s) == w.objs[s].cmdbuf_compute

\* Device::transferCmdPool() / Device::transferCmdBuffer()
transferCmdPool(w, s) == w.objs[s].cmdpool_transfer
transferCmdBuffer(w, s) == w.objs[s].cmdbuf_transfer

\* ------------------------------------------------------------ threads
\* Threads that run staged transfers on arrays of the Device in slot d1.  Of
\* a transfer only the copy matters here: copyBuf() takes the command buffer
\* device.transferCmdBuffer() refers to, records the copy into it (begin ..
\* end), submits it and waits for the queue.  A caller runs the call with or
\* without the callers' own lock around it; the Device has none.
Threads == {"t1", "t2"}
NoXfer ==
  [pc |-> [t \in Threads |-> "idle"],      \* idle, recording, submitted
   cb |-> [t \in Threads |-> Null],        \* the command buffer the thread uses
   lock |-> "free",                        \* holder of the callers' lock
   allLocked |-> TRUE,                     \* every call so far was made under the lock
   cbState |-> "ready",                    \* ready, recording, pending
   misuse |-> FALSE]                       \* a command buffer call in a wrong state
InFlight == {t \in Threads : xfer.pc[t] # "idle"}

\* ------------------------------------------------------------ inputs
\* host ranges of len elements: pattern 0 is all zeros, pattern k > 0 counts
\* up from k
Pattern(len, k) == [i \in 1..len |-> IF k = 0 THEN 0 ELSE (i + k - 1) % (2^SizeofT)]
\* element counts: one element, the largest array; offsets and counts: none,
\* one, the largest array's size
Lens == {1, MaxN}
Offsets == {0, 1, MaxN}
PropChoices == {{}, {HostVisible}}

\* The data an operation is given.  Plain: zeros everywhere (new memory,
\* host ranges), so that the contents of memory never differ; the state is
\* then the objects and the resources they hold.  Data: distinguishable
\* values, garbage in new memory, and host caches that may or may not have
\* written back or refreshed a line.
Plain == [lens |-> {MaxN}, pats |-> {0}, garbage |-> {0}, funs |-> {"identity"},
          hw |-> {FALSE}, fails |-> {}, errKinds |-> {"runtime_error"},
          allTypes |-> {TRUE}]
Full == [lens |-> {MaxN}, pats |-> {0}, garbage |-> {0}, funs |-> {"identity"},
         hw |-> {FALSE}, fails |-> FailPoints \ {"none"}, errKinds |-> ErrKinds,
         allTypes |-> {TRUE, FALSE}]
Data == [lens |-> Lens, pats |-> {1}, garbage |-> {0, 1}, funs |-> Funs, hw |-> BOOLEAN,
         fails |-> {"copyBuf"}, errKinds |-> {"runtime_error"}, allTypes |-> {TRUE}]
\* the number of elements fun stores: size_ of them, or all from offset to
\* the end when size_ is 0
FunWrites(size, offset, size_) ==
  IF size_ # 0 THEN size_ ELSE IF offset < size THEN size - offset ELSE 0
HostRanges(I) == {Pattern(len, k) : len \in I.lens, k \in I.pats}

\* the calls that fail, with the kind of error where the allocator raises it
Failures(I, tb, points) ==
  {[NoFail(tb) EXCEPT !.fail = f] : f \in (I.fails \cap points) \ {"allocMemory"}}
  \cup {[NoFail(tb) EXCEPT !.fail = f, !.errKind = k] :
          f \in I.fails \cap points \cap {"allocMemory"}, k \in I.errKinds}

\* what the environment can do during a constructor call
CtorOracles(I) ==
  UNION {
    {[NoFail(tb) EXCEPT !.g = g, !.errKind = k] : g \in I.garbage, k \in I.errKinds}
    \cup Failures(I, tb, {"makeBuffer", "allocMemory", "bindBufferMemory"})
    : tb \in {TypeBitsOf(memTypes, all) : all \in I.allTypes} }

\* what the environment can do during a transfer call on the array in slot
\* s.  Mapped path: a writing call ends in flush_mapped_writes(), where the
\* host cache may have written lines back early; a reading call may read
\* past the mapping.  Staged path: a call may fail; new staging memory holds
\* garbage; after a reading call's copy the host's view of the staging
\* memory may be stale (the staging buffer accepts every memory type).
TransferOracles(I, s, writing) ==
  LET tb == 0..(Len(memTypes) - 1)
      hv == HostVisible \in arrays[s].flags
      nc == hv /\ HostCoherent \notin arrays[s].flags
  IN {[NoFail(tb) EXCEPT !.g = g, !.evict = e, !.stale = st] :
        g \in IF hv /\ writing THEN {0} ELSE I.garbage,
        e \in IF nc /\ writing THEN I.hw ELSE {FALSE},
        st \in IF hv \/ writing THEN {FALSE} ELSE I.hw}
     \cup IF hv THEN {} ELSE Failures(I, tb, FailPoints)

\* ------------------------------------------------------------ actions
NoVals == << >>
Call(op, s, t, vals, offset, size, f) ==
  [op |-> op, s |-> s, t |-> t, vals |-> vals, offset |-> offset, size |-> size, f |-> f,
   props |-> {}, ret |-> Null]

\* the operation op ends in d
Done(c, d) ==
  \E r \in {d} :
    /\ arrays' = r.arr
    /\ bufs' = r.bufs
    /\ mems' = r.mems
    /\ last' = [op |-> c.op, s |-> c.s, t |-> c.t, vals |-> c.vals, offset |-> c.offset,
                size |-> c.size, f |-> c.f, props |-> c.props, tr |-> r.tr,
                exc |-> r.exc, ub |-> r.ub, out |-> r.out, funCalls |-> r.funCalls,
                ret |-> c.ret]
    /\ UNCHANGED << memTypes, devVars, xfer >>

CanCreate == FreeHandles(bufs) # {} /\ FreeHandles(mems) # {}
IsFree(s) == arrays[s].life = "none"
IsLive(s) == arrays[s].life = "live"
IsDeviceArray(s) == IsLive(s) /\ arrays[s].kind = "Device" /\ arrays[s].buf # Null

Init ==
  /\ memTypes \in MemConfigs
  /\ arrays = [s \in AllSlots |-> NoObject]
  /\ bufs = [h \in Handles |-> DeadBuf]
  /\ mems = [h \in Handles |-> DeadMem]
  /\ last = [op |-> "init", s |-> Temp, t |-> Temp, vals |-> NoVals, offset |-> 0,
             size |-> 0, f |-> "identity", props |-> {}, tr |-> << >>, exc |-> "none",
             ub |-> FALSE,
             out |-> << >>, funCalls |-> 0, ret |-> Null]
  /\ devices = [s \in DevSlots |-> NoDevice]
  /\ vk = [ldevs |-> [h \in LDevHandles |-> NoLDev],
           pools |-> [h \in PoolHandles |-> NoPool],
           cbufs |-> [h \in CmdBufHandles |-> NoCmdBuf]]
  /\ dlast = [op |-> "init", s |-> "d1", t |-> "d1", tr |-> << >>, exc |-> "none",
              ub |-> FALSE, ret |-> Null, families |-> << >>, tgtFlag |-> 0]
  /\ xfer = NoXfer

\* BasicArray(), HostArray(), DeviceArray(): _size of the derived classes is
\* left uninitialized
DefaultConstruct(s) ==
  /\ IsFree(s)
  /\ \E kind \in Kinds, n \in Offsets :
       /\ kind = "Basic" => n = 0
       /\ Done(Call("default", s, s, NoVals, 0, n, kind),
               [Dev0 EXCEPT !.arr[s] = BasicArrayDefault(kind, n)])

ConstructBasic(s, I) ==
  /\ IsFree(s) /\ CanCreate
  /\ \E class \in AllocClasses, n \in I.lens, props \in PropChoices, o \in CtorOracles(I) :
       Done([Call("BasicArray", s, s, NoVals, 0, n * SizeofT, class) EXCEPT !.props = props],
            BasicArrayCtor(Dev0, s, "Basic", class, n * SizeofT, props, o))

ConstructHost(s, I) ==
  /\ IsFree(s) /\ CanCreate
  /\ \E class \in AllocClasses \ {"Device"}, n \in I.lens, o \in CtorOracles(I) :
       Done(Call("HostArray", s, s, NoVals, 0, n, class),
            HostArrayCtor(Dev0, s, class, n, {}, o))

ConstructDevice(s, I) ==
  /\ IsFree(s) /\ CanCreate
  /\ \E n \in I.lens, props \in PropChoices, o \in CtorOracles(I) :
       Done([Call("DeviceArray", s, s, NoVals, 0, n, "Device") EXCEPT !.props = props],
            DeviceArrayCtor(Dev0, s, n, props, o))

\* Device::selectMemory(buffer, properties) for the buffer of the array in
\* slot s and any set of property flags
SelectMemory(s) ==
  /\ IsLive(s) /\ arrays[s].buf # Null
  /\ \E properties \in SUBSET {DeviceLocal, HostVisible, HostCoherent, HostCached} :
       Done([Call("selectMemory", s, s, NoVals, 0, 0, "identity")
               EXCEPT !.props = properties,
                      !.ret = selectMemory(Dev0, arrays[s].buf, properties)],
            Dev0)

\* what the environment can do in the body of the index based constructor:
\* the copy may fail, and the host's view of the destination may stay stale
BodyOracles(I) ==
  LET tb == 0..(Len(memTypes) - 1) IN
  {[NoFail(tb) EXCEPT !.stale = st] : st \in I.hw} \cup Failures(I, tb, {"copyBuf"})

ConstructDeviceIndexed(s, I) ==
  /\ IsFree(s) /\ CanCreate
  /\ \E n \in I.lens, f \in I.funs, props \in PropChoices, o \in CtorOracles(I),
        oS \in BodyOracles(I) :
       Done([Call("DeviceArrayIndexed", s, s, NoVals, 0, n, f) EXCEPT !.props = props],
            DeviceArrayCtorIndexed(Dev0, s, n, f, props, o, oS))

\* what the environment can do during an initializing HostArray constructor:
\* as for a constructor, and the host cache may have written lines back
\* before flush_mapped_writes() is reached
InitOracles(I) == {[o EXCEPT !.evict = e] : o \in CtorOracles(I), e \in I.hw}

ConstructHostFill(s, I) ==
  /\ IsFree(s) /\ CanCreate
  /\ \E class \in AllocClasses \ {"Device"}, n \in I.lens, value \in I.pats,
        o \in InitOracles(I) :
       Done(Call("HostArrayFill", s, s, << value >>, 0, n, class),
            HostArrayCtorFill(Dev0, s, class, n, value, o))

ConstructHostRange(s, I) ==
  /\ IsFree(s) /\ CanCreate
  /\ \E class \in AllocClasses \ {"Device"}, vals \in HostRanges(I), o \in InitOracles(I) :
       Done(Call("HostArrayRange", s, s, vals, 0, Len(vals), class),
            HostArrayCtorRange(Dev0, s, class, vals, o))

ConstructHostTransform(s, I) ==
  /\ IsFree(s) /\ CanCreate
  /\ \E class \in AllocClasses \ {"Device"}, vals \in HostRanges(I), f \in I.funs,
        o \in InitOracles(I) :
       Done(Call("HostArrayTransform", s, s, Transform(f, vals), 0, Len(vals), class),
            HostArrayCtorTransform(Dev0, s, class, vals, f, o))

ConstructHostFun(s, I) ==
  /\ IsFree(s) /\ CanCreate
  /\ \E class \in AllocClasses \ {"Device"}, vals \in HostRanges(I), o \in InitOracles(I) :
       Done(Call("HostArrayFun", s, s, vals, 0, Len(vals), class),
            HostArrayCtorFun(Dev0, s, class, Len(vals), vals, o))

\* a[i] read on the host
Subscript(s, I) ==
  /\ IsLive(s) /\ arrays[s].kind = "Host" /\ arrays[s].buf # Null
  /\ \E i \in 0..(arrays[s].size - 1), o \in TransferOracles(I, s, FALSE) :
       Done(Call("subscript", s, s, NoVals, i, 0, "identity"),
            HostArraySubscript(Dev0, s, i, o))

\* the destructor of the object in slot s
Destructor(d, s) ==
  CASE d.arr[s].kind = "Basic" -> BasicArrayDtor(d, s)
    [] d.arr[s].kind = "Host" -> HostArrayDtor(d, s)
    [] d.arr[s].kind = "Device" -> DeviceArrayDtor(d, s)

Destroy(s) ==
  /\ IsLive(s)
  /\ Done(Call("destroy", s, s, NoVals, 0, 0, arrays[s].kind), Destructor(Dev0, s))

\* A2(std::move(A1)): the new object in slot s, A1 in slot t
MoveConstruct(s, t) ==
  /\ IsFree(s) /\ IsLive(t)
  /\ Done(Call("moveConstruct", s, t, NoVals, 0, 0, arrays[t].kind),
          CASE arrays[t].kind = "Basic" -> BasicArrayMoveCtor(Dev0, s, t, "Basic")
            [] arrays[t].kind = "Host" -> HostArrayMoveCtor(Dev0, s, t)
            [] arrays[t].kind = "Device" -> DeviceArrayMoveCtor(Dev0, s, t))

\* A2 = std::move(A1): A2 in slot s, A1 in slot t
MoveAssign(s, t) ==
  /\ IsLive(s) /\ IsLive(t) /\ arrays[s].kind = arrays[t].kind
  /\ Done(Call("moveAssign", s, t, NoVals, 0, 0, arrays[t].kind),
          CASE arrays[t].kind = "Basic" -> BasicArrayMoveAssign(Dev0, s, t)
            [] arrays[t].kind = "Host" -> HostArrayMoveAssign(Dev0, s, t)
            [] arrays[t].kind = "Device" -> DeviceArrayMoveAssign(Dev0, s, t))

Swap(s, t) ==
  /\ IsLive(s) /\ IsLive(t) /\ arrays[s].kind = arrays[t].kind /\ arrays[s].kind # "Basic"
  /\ Done(Call("swap", s, t, NoVals, 0, 0, arrays[t].kind),
          IF arrays[t].kind = "Host" THEN HostArraySwap(Dev0, s, t)
          ELSE DeviceArraySwap(Dev0, s, t))

FromHost(s, I) ==
  /\ IsDeviceArray(s) /\ CanCreate
  /\ \E vals \in HostRanges(I), o \in TransferOracles(I, s, TRUE) :
       Done(Call("fromHost", s, s, vals, 0, 0, "identity"), fromHost(Dev0, s, vals, o))

FromHostTransform(s, I) ==
  /\ IsDeviceArray(s) /\ CanCreate
  /\ \E vals \in HostRanges(I), f \in I.funs, o \in TransferOracles(I, s, TRUE) :
       Done(Call("fromHostTransform", s, s, vals, 0, 0, f),
            fromHostTransform(Dev0, s, vals, f, o))

FromHostFun(s, I) ==
  /\ IsDeviceArray(s) /\ CanCreate
  /\ \E offset \in Offsets, size_ \in Offsets, k \in I.pats, o \in TransferOracles(I, s, TRUE) :
     \E vals \in {Pattern(FunWrites(arrays[s].size, offset, size_), k)} :
       Done(Call("fromHostFun", s, s, vals, offset, size_, "identity"),
            fromHostFun(Dev0, s, vals, offset, size_, o))

FromHostOffset(s, I) ==
  /\ IsDeviceArray(s) /\ CanCreate
  /\ \E vals \in HostRanges(I), offset \in Offsets, o \in TransferOracles(I, s, TRUE) :
       Done(Call("fromHostOffset", s, s, vals, offset, 0, "identity"),
            fromHostOffset(Dev0, s, vals, offset, o))

ToHost(s, I) ==
  /\ IsDeviceArray(s) /\ CanCreate
  /\ \E o \in TransferOracles(I, s, FALSE) :
       Done(Call("toHost", s, s, NoVals, 0, 0, "identity"), toHost(Dev0, s, o))

ToHostFun(s, I) ==
  /\ IsDeviceArray(s) /\ CanCreate
  /\ \E f \in I.funs, o \in TransferOracles(I, s, FALSE) :
       Done(Call("toHostFun", s, s, NoVals, 0, 0, f), toHostFun(Dev0, s, f, o))

ToHostSized(s, I) ==
  /\ IsDeviceArray(s) /\ CanCreate
  /\ \E size \in Offsets, f \in I.funs, o \in TransferOracles(I, s, FALSE) :
       Done(Call("toHostSized", s, s, NoVals, 0, size, f), toHostSized(Dev0, s, size, f, o))

ToHostCallback(s, I) ==
  /\ IsDeviceArray(s) /\ CanCreate
  /\ \E offset \in Offsets, o \in TransferOracles(I, s, FALSE) :
       Done(Call("toHostCallback", s, s, NoVals, offset, 0, "identity"),
            toHostCallback(Dev0, s, offset, o))

RangeToHost(s, I) ==
  /\ IsDeviceArray(s) /\ CanCreate
  /\ \E offset_begin \in Offsets, offset_end \in Offsets, o \in TransferOracles(I, s, FALSE) :
       /\ offset_begin <= offset_end
       /\ Done(Call("rangeToHost", s, s, NoVals, offset_begin, offset_end, "identity"),
               rangeToHost(Dev0, s, offset_begin, offset_end, o))

Transfer(s, I) ==
  \/ FromHost(s, I)
  \/ FromHostTransform(s, I)
  \/ FromHostFun(s, I)
  \/ FromHostOffset(s, I)
  \/ ToHost(s, I)
  \/ ToHostFun(s, I)
  \/ ToHostSized(s, I)
  \/ ToHostCallback(s, I)
  \/ RangeToHost(s, I)

\* Objects of the three classes in two places: their construction, moves and
\* destruction, and the transfers that map a DeviceArray's memory
Next ==
  \E s \in Slots :
    \/ DefaultConstruct(s)
    \/ ConstructBasic(s, Plain)
    \/ ConstructHost(s, Plain)
    \/ ConstructDevice(s, Plain)
    \/ Destroy(s)
    \/ \E t \in Slots \ {s} : MoveConstruct(s, t)
    \/ \E t \in Slots : MoveAssign(s, t)
    \/ \E t \in Slots : Swap(s, t)
    \/ FromHost(s, Plain)
    \/ ToHost(s, Plain)

Spec == Init /\ [][Next]_vars

\* One DeviceArray and the data that goes through it
NextData ==
  \/ ConstructDevice("a1", Data)
  \/ ConstructDeviceIndexed("a1", Data)
  \/ Destroy("a1")
  \/ Transfer("a1", Data)

SpecData == Init /\ [][NextData]_vars

\* One object and everything its allocator can do
NextAlloc ==
  \/ ConstructBasic("a1", Full)
  \/ ConstructHost("a1", Full)
  \/ ConstructDevice("a1", Full)
  \/ SelectMemory("a1")
  \/ Destroy("a1")

SpecAlloc == Init /\ [][NextAlloc]_vars

\* One HostArray, constructed with its contents and read element by element
NextHost ==
  \/ ConstructHostFill("a1", Data)
  \/ ConstructHostRange("a1", Data)
  \/ ConstructHostTransform("a1", Data)
  \/ ConstructHostFun("a1", Data)
  \/ Subscript("a1", Data)
  \/ Destroy("a1")

SpecHost == Init /\ [][NextHost]_vars

\* the operation op on Device objects ends in w; it was given the queue
\* families and the target flags
DoneDevWith(op, s, t, w, queue_families, tgtFlag) ==
  \E r \in {w} :
    /\ devices' = r.objs
    /\ vk' = [ldevs |-> r.ldevs, pools |-> r.pools, cbufs |-> r.cbufs]
    /\ dlast' = [op |-> op, s |-> s, t |-> t, tr |-> r.tr, exc |-> r.exc, ub |-> r.ub,
                 ret |-> r.ret, families |-> queue_families, tgtFlag |-> tgtFlag]
    /\ UNCHANGED << memTypes, arrays, bufs, mems, last, xfer >>

\* the operation op on Device objects ends in w
DoneDev(op, s, t, w) == DoneDevWith(op, s, t, w, << >>, 0)

IsFreeDev(s) == devices[s].life = "none"
IsLiveDev(s) == devices[s].life = "live"

ConstructDev(s, points) ==
  /\ IsFreeDev(s)
  /\ FreeIn(vk.ldevs) # {}
  /\ Cardinality(FreeIn(vk.pools)) >= 2 /\ Cardinality(FreeIn(vk.cbufs)) >= 2
  /\ \E c \in FamilyIds, t \in FamilyIds, o \in DevOracles(points) :
       DoneDev("Device", s, s, DeviceCtor(DevW0, s, c, t, o))

DestroyDev(s) ==
  /\ IsLiveDev(s)
  /\ DoneDev("destroy", s, s, DeviceDtor(DevW0, s))

MoveConstructDev(s, t) ==
  /\ IsFreeDev(s) /\ IsLiveDev(t)
  /\ DoneDev("moveConstruct", s, t, DeviceMoveCtor(DevW0, s, t))

MoveAssignDev(s, t) ==
  /\ IsLiveDev(s) /\ IsLiveDev(t)
  /\ DoneDev("moveAssign", s, t, DeviceMoveAssign(DevW0, s, t))

SwapDev(s, t) ==
  /\ IsLiveDev(s) /\ IsLiveDev(t)
  /\ DoneDev("swap", s, t, DeviceSwap(DevW0, s, t))

ReleaseComputeCmdBuffer(s, points) ==
  /\ IsLiveDev(s) /\ devices[s].handle # Null
  /\ FreeIn(vk.cbufs) # {}
  /\ \E o \in DevOracles(points \cap {"allocCmdBuffer1"}) :
       DoneDev("releaseComputeCmdBuffer", s, s, releaseComputeCmdBuffer(DevW0, s, o))

\* the command buffers callers hold: handed out by releaseComputeCmdBuffer()
\* and not freed since
CallerHeld ==
  {h \in CmdBufHandles :
     /\ vk.cbufs[h].live
     /\ \A s \in DevSlots :
          devices[s].handle # Null =>
            h \notin {devices[s].cmdbuf_compute, devices[s].cmdbuf_transfer}}

\* a caller gives a command buffer it holds back to the Device whose pool the
\* buffer is of
FreeCmdBuffer(s) ==
  /\ IsLiveDev(s) /\ devices[s].handle # Null
  /\ \E buf \in CallerHeld, transfer \in BOOLEAN :
       /\ vk.cbufs[buf].pool = (IF transfer THEN devices[s].cmdpool_transfer
                                ELSE devices[s].cmdpool_compute)
       /\ DoneDev("freeCmdBuffer", s, s, freeCmdBuffer(DevW0, s, buf, transfer))

HasSeparateQueues(s) ==
  /\ IsLiveDev(s)
  /\ DoneDev("hasSeparateQueues", s, s, [DevW0 EXCEPT !.ret = hasSeparateQueues(DevW0, s)])

\* Device objects in two places: construction, moves, the replacement of the
\* compute command buffer, destruction; no call of the driver fails.  The
\* memory types of the physical device play no part.
InitDevice == Init /\ Len(memTypes) = 3
NextDevice ==
  \E s \in DevSlots :
    \/ ConstructDev(s, {})
    \/ DestroyDev(s)
    \/ \E t \in DevSlots \ {s} : MoveConstructDev(s, t)
    \/ \E t \in DevSlots : MoveAssignDev(s, t)
    \/ \E t \in DevSlots : SwapDev(s, t)
    \/ ReleaseComputeCmdBuffer(s, {})
    \/ HasSeparateQueues(s)

SpecDevice == InitDevice /\ [][NextDevice]_vars

\* One Device object whose construction can fail at every call of the
\* driver, with an error the constructor catches or with another one
NextDeviceFail ==
  \/ ConstructDev("d1", DevFailPoints)
  \/ DestroyDev("d1")

SpecDeviceFail == InitDevice /\ [][NextDeviceFail]_vars

\* The command buffers of a Device made in one place and moved to another:
\* callers take the compute command buffer, give it back or keep it.  One
\* logical device at a time.
NextCmdBuf ==
  \/ (\A h \in LDevHandles : ~vk.ldevs[h].live) /\ ConstructDev("d1", {})
  \/ \E s \in DevSlots :
       \/ DestroyDev(s)
       \/ \E t \in DevSlots \ {s} : MoveConstructDev(s, t)
       \/ \E t \in DevSlots : MoveAssignDev(s, t)
       \/ \E t \in DevSlots : SwapDev(s, t)
       \/ ReleaseComputeCmdBuffer(s, {})
       \/ FreeCmdBuffer(s)

SpecCmdBuf == InitDevice /\ [][NextCmdBuf]_vars

\* the queue family properties a physical device can report
QueueFamilies == [queueFlags : QueueFlagValues, queueCount : {0, 1}]
FamilyLists == UNION {[1..n -> QueueFamilies] : n \in 0..MaxFamilies}

\* getFamilyID() keeps no state: one call per behaviour shows all it does
GetFamilyID(queue_families, tgtFlag) ==
  /\ dlast.op = "init"
  /\ DoneDevWith("getFamilyID", "d1", "d1",
                 [DevW0 EXCEPT !.ret = getFamilyID(queue_families, tgtFlag)],
                 queue_families, tgtFlag)

\* The choice of a queue family, for every list of families and every target
NextFamily ==
  \E queue_families \in FamilyLists, tgtFlag \in QueueFlagValues \ {0} :
    GetFamilyID(queue_families, tgtFlag)

SpecFamily == InitDevice /\ [][NextFamily]_vars

\* construction from the queue families the physical device reports
ConstructDevFamilies(s) ==
  /\ IsFreeDev(s)
  /\ FreeIn(vk.ldevs) # {}
  /\ Cardinality(FreeIn(vk.pools)) >= 2 /\ Cardinality(FreeIn(vk.cbufs)) >= 2
  /\ \E familyProperties \in FamilyLists :
       DoneDevWith("DeviceFamilies", s, s,
                   DeviceCtorFamilies(DevW0, s, familyProperties, DevNoFail),
                   familyProperties, 0)

ComputeQueue(s) ==
  /\ IsLiveDev(s)
  /\ DoneDev("computeQueue", s, s, computeQueue(DevW0, s, 0))

TransferQueue(s) ==
  /\ IsLiveDev(s)
  /\ DoneDev("transferQueue", s, s, transferQueue(DevW0, s, 0))

\* One Device at a time, constructed from a list of queue families or from
\* two family ids, asked for its queues and destroyed.
NextQueues ==
  \/ ConstructDevFamilies("d1")
  \/ ConstructDev("d1", {})
  \/ ComputeQueue("d1")
  \/ TransferQueue("d1")
  \/ DestroyDev("d1")

SpecQueues == InitDevice /\ [][NextQueues]_vars

\* copyBuf(), first part: cmd_buf = device.transferCmdBuffer(); cmd_buf.begin()
\* and the copy command
BeginCopy(t, locked) ==
  /\ IsLiveDev("d1") /\ devices["d1"].handle # Null
  /\ xfer.pc[t] = "idle"
  /\ locked => xfer.lock = "free"
  /\ xfer' = [xfer EXCEPT !.pc[t] = "recording",
                          !.cb[t] = transferCmdBuffer(DevW0, "d1"),
                          !.lock = IF locked THEN t ELSE @,
                          !.allLocked = @ /\ locked,
                          !.misuse = @ \/ xfer.cbState # "ready",
                          !.cbState = "recording"]
  /\ UNCHANGED << memTypes, arrays, bufs, mems, last, devVars >>

\* copyBuf(), second part: cmd_buf.end() and the submission to the transfer
\* queue
SubmitCopy(t) ==
  /\ xfer.pc[t] = "recording"
  /\ xfer' = [xfer EXCEPT !.pc[t] = "submitted",
                          !.misuse = @ \/ xfer.cbState # "recording",
                          !.cbState = "pending"]
  /\ UNCHANGED << memTypes, arrays, bufs, mems, last, devVars >>

\* copyBuf(), last part: the wait for the queue; the call returns and a
\* caller that took the lock gives it back
FinishCopy(t) ==
  /\ xfer.pc[t] = "submitted"
  /\ xfer' = [xfer EXCEPT !.pc[t] = "idle",
                          !.cb[t] = Null,
                          !.lock = IF @ = t THEN "free" ELSE @,
                          !.cbState = IF InFlight = {t} THEN "ready" ELSE @]
  /\ UNCHANGED << memTypes, arrays, bufs, mems, last, devVars >>

\* One Device and two threads that copy on it
NextThreads ==
  \/ IsFreeDev("d1") /\ xfer = NoXfer /\ ConstructDev("d1", {})
  \/ InFlight = {} /\ DestroyDev("d1")
  \/ \E t \in Threads :
       \/ \E locked \in BOOLEAN : BeginCopy(t, locked)
       \/ SubmitCopy(t)
       \/ FinishCopy(t)

SpecThreads == InitDevice /\ [][NextThreads]_vars

\* ------------------------------------------------------------ properties
\* what the last operation did, read from its log
CallsOf(tr, c) == {i \in 1..Len(tr) : tr[i].call = c}
Constructs == {"BasicArray", "HostArray", "DeviceArray"}
WriteOps == {"fromHost", "fromHostTransform", "fromHostFun", "fromHostOffset"}
ReadOps == {"toHost", "toHostFun", "toHostSized", "toHostCallback", "rangeToHost"}
TransferOps == WriteOps \cup ReadOps
LastHostVisible == isHostVisible(Dev0, last.s)

\* C1: A.fromHost(H) with H of A.size() elements, followed by A.toHost(H2),
\* leaves H2 element-wise equal to H, whatever memory A was granted.
RoundTrip ==
  [][(/\ last.op = "fromHost" /\ last.exc = "none"
      /\ Len(last.vals) = arrays[last.s].size
      /\ last'.op = "toHost" /\ last'.exc = "none")
     => last'.out = last.vals]_vars

\* C2: fromHost(begin, end), with or without fun, on host-visible memory
\* creates no buffer, allocates no memory and issues no copy; on memory that
\* is not host-visible it never maps the destination's memory, creates one
\* staging array (one buffer, one allocation) and issues one copy from the
\* staging buffer to the destination.
FromHostRouting ==
  last.op \in {"fromHost", "fromHostTransform"} =>
    IF LastHostVisible
    THEN /\ CallsOf(last.tr, "createBuffer") = {}
         /\ CallsOf(last.tr, "allocateMemory") = {}
         /\ CallsOf(last.tr, "copyBuf") = {}
    ELSE /\ \A i \in CallsOf(last.tr, "mapMemory") : last.tr[i].h # arrays[last.s].mem
         /\ Cardinality(CallsOf(last.tr, "createBuffer")) = 1
         /\ Cardinality(CallsOf(last.tr, "allocateMemory")) = 1
         /\ Cardinality(CallsOf(last.tr, "copyBuf")) = 1
         /\ \A i \in CallsOf(last.tr, "copyBuf"), j \in CallsOf(last.tr, "createBuffer") :
              /\ j < i
              /\ last.tr[i].h = last.tr[j].h
              /\ last.tr[i].h2 = arrays[last.s].buf
FromHostStaged ==
  /\ last.op = "fromHost" /\ ~LastHostVisible /\ last.exc = "none"
  /\ Cardinality(CallsOf(last.tr, "copyBuf")) = 1

\* C3: in a staged transfer the staging array is unmapped, its memory freed
\* and its buffer destroyed after the copy and before the call returns, also
\* when the copy fails; so no buffer and no memory but the array's own is
\* live after a transfer call.
StagingReleasedAfterCopy ==
  /\ (last.op \in TransferOps /\ CallsOf(last.tr, "copyBuf") # {}) =>
       \A c \in CallsOf(last.tr, "copyBuf"), b \in CallsOf(last.tr, "createBuffer"),
          m \in CallsOf(last.tr, "allocateMemory") :
         \E u, f, x \in 1..Len(last.tr) :
           /\ c < u /\ u < f /\ f < x
           /\ last.tr[u].call = "unmapMemory" /\ last.tr[u].h = last.tr[m].h
           /\ last.tr[f].call = "freeMemory" /\ last.tr[f].h = last.tr[m].h
           /\ last.tr[x].call = "destroyBuffer" /\ last.tr[x].h = last.tr[b].h
           /\ Cardinality(CallsOf(last.tr, "freeMemory")) = 1
           /\ Cardinality(CallsOf(last.tr, "destroyBuffer")) = 1
  /\ last.op \in TransferOps =>
       /\ arrays[Temp] = NoObject
       /\ \A h \in Handles : bufs[h].live => h = arrays[last.s].buf
       /\ \A h \in Handles : mems[h].live => h = arrays[last.s].mem
StagedCopyFailed ==
  /\ last.op \in TransferOps /\ last.exc = "runtime_error"
  /\ CallsOf(last.tr, "copyBuf") # {}
  /\ CallsOf(last.tr, "destroyBuffer") # {}

\* C4: fromHost(fun, offset, size) and fromHost(begin, end, offset) with
\* offset >= size() change nothing (the array, its memory, the buffers), do
\* not call fun and make no device call.
WriteBeyondEndIsNoOp ==
  [][(last'.op \in {"fromHostFun", "fromHostOffset"}
      /\ last'.offset >= arrays[last'.s].size)
     => /\ arrays' = arrays /\ bufs' = bufs /\ mems' = mems
        /\ last'.tr = << >> /\ last'.funCalls = 0 /\ last'.exc = "none"]_vars
WroteBeyondEnd ==
  /\ last.op \in {"fromHostFun", "fromHostOffset"}
  /\ last.offset >= arrays[last.s].size
  /\ last.tr = << >>

\* C5: toHost(fun, offset) and rangeToHost(offset_begin, offset_end, dst)
\* with the offset beyond size() are silent no-ops: nothing is written to
\* the destination, fun is not called, no device call is made.
ReadBeyondEndIsNoOp ==
  [][(last'.op \in {"toHostCallback", "rangeToHost"}
      /\ last'.offset > arrays[last'.s].size)
     => /\ arrays' = arrays /\ bufs' = bufs /\ mems' = mems
        /\ last'.tr = << >> /\ last'.funCalls = 0 /\ last'.out = << >>]_vars

\* C8: toHost(dst, fun) with fun the identity writes the same size()
\* elements as toHost(dst), from every state and with whatever the
\* environment does during the call.
IdentityTransformIsCopy ==
  IsDeviceArray("a1") =>
    \A o \in TransferOracles(Data, "a1", FALSE) :
      /\ toHostFun(Dev0, "a1", "identity", o).out = toHost(Dev0, "a1", o).out
      /\ Ok(toHost(Dev0, "a1", o)) =>
           Len(toHostFun(Dev0, "a1", "identity", o).out) = arrays["a1"].size
IdentityTransformDone ==
  /\ last.op = "toHostFun" /\ last.f = "identity" /\ last.exc = "none"
  /\ Len(last.out) = MaxN
  /\ \E k \in 1..Len(last.out) : last.out[k] # 0

\* C6: an array whose construction succeeded holds memory whose property
\* flags contain every flag requested (the allocator's and the caller's); if
\* HostVisible was requested, isHostVisible() is true.
GrantedCoversRequested ==
  (last.op \in Constructs /\ last.exc = "none") =>
    LET requested == AllocFlags(last.f) \cup last.props IN
    /\ requested \subseteq arrays[last.s].flags
    /\ requested \subseteq mems[arrays[last.s].mem].flags
    /\ HostVisible \in requested => isHostVisible(Dev0, last.s)
HostVisibleGranted ==
  /\ last.op = "BasicArray" /\ last.exc = "none"
  /\ last.f = "Device" /\ HostVisible \in last.props
  /\ isHostVisible(Dev0, last.s)

\* C7: after A2 = std::move(A1), by move construction or move assignment,
\* A1 has size zero, a null buffer handle and no mapped pointer, and its
\* destructor makes no device call.
MovedFromIsEmpty ==
  (last.op \in {"moveConstruct", "moveAssign"} /\ last.s # last.t) =>
    /\ arrays[last.t].buf = Null
    /\ ~arrays[last.t].ptr
    /\ arrays[last.t].size = 0
    /\ arrays[last.t].size_bytes = 0
    /\ Destructor(Dev0, last.t).tr = << >>

\* C9: when the BasicArray constructor fails after the buffer was created,
\* the buffer is destroyed once and memory that was allocated is freed once
\* before the error leaves the constructor, whatever the kind of the error.
PartialConstructionReleased ==
  (last.op \in Constructs /\ last.exc # "none") =>
    /\ \A b \in CallsOf(last.tr, "createBuffer") :
         /\ Cardinality({i \in CallsOf(last.tr, "destroyBuffer") :
                           i > b /\ last.tr[i].h = last.tr[b].h}) = 1
         /\ ~bufs[last.tr[b].h].live
    /\ \A m \in CallsOf(last.tr, "allocateMemory") :
         /\ Cardinality({i \in CallsOf(last.tr, "freeMemory") :
                           i > m /\ last.tr[i].h = last.tr[m].h}) = 1
         /\ ~mems[last.tr[m].h].live

\* C10: the destructor of an array whose buffer handle is not null calls
\* freeMemory and then destroyBuffer, once each, on the array's memory and
\* buffer; with a null handle it makes no device call.
IsRelease(e) == e.call \in {"freeMemory", "destroyBuffer"}
DestructionProtocol ==
  [][last'.op = "destroy" =>
       IF arrays[last'.s].buf # Null
       THEN /\ SelectSeq(last'.tr, IsRelease)
                 = << Ev("freeMemory", arrays[last'.s].mem, Null, 0, 0, 0),
                      Ev("destroyBuffer", arrays[last'.s].buf, Null, 0, 0, 0) >>
            /\ arrays[last'.s].kind = "Basic" => Len(last'.tr) = 2
       ELSE last'.tr = << >>]_vars
DestroyedOwningBasicArray ==
  /\ last.op = "destroy" /\ last.f = "Basic"
  /\ Len(last.tr) = 2

\* the cache maintenance calls of a log
IsCacheCall(e) == e.call \in {"flushMappedMemoryRanges", "invalidateMappedMemoryRanges"}
CacheCallsFrom(tr, i) == SelectSeq(SubSeq(tr, i, Len(tr)), IsCacheCall)

\* C11: after the host stores of a writing call on mapped memory,
\* flush_mapped_writes() issues one flush (host writes made visible to the
\* device) of the array's whole memory when the memory is not host-coherent,
\* and no cache call when it is.
FlushAfterHostWrites ==
  (last.op \in WriteOps /\ LastHostVisible) =>
    \A w \in CallsOf(last.tr, "hostWrite") :
      CacheCallsFrom(last.tr, w + 1)
        = IF isHostCoherent(Dev0, last.s) THEN << >>
          ELSE << Ev("flushMappedMemoryRanges", arrays[last.s].mem, Null, 0, 0, 0) >>

\* C12: on the host-visible path of the toHost calls and of rangeToHost the
\* array's memory is invalidated (device writes made visible to the host)
\* before any element is read when the memory is not host-coherent; on
\* host-coherent memory the call issues no cache call.
InvalidateBeforeHostReads ==
  (last.op \in ReadOps /\ LastHostVisible) =>
    IF isHostCoherent(Dev0, last.s)
    THEN SelectSeq(last.tr, IsCacheCall) = << >>
    ELSE \A r \in CallsOf(last.tr, "hostRead") :
           \E i \in CallsOf(last.tr, "invalidateMappedMemoryRanges") :
             i < r /\ last.tr[i].h = arrays[last.s].mem

\* whether the memory named by entry i of the log tr is mapped when the
\* entry is issued; mems0 is the memory before the call
MappedAt(mems0, tr, i) ==
  LET m == tr[i].h
      prior == {j \in 1..(i - 1) :
                  /\ tr[j].h = m
                  /\ tr[j].call \in {"allocateMemory", "mapMemory", "unmapMemory"}}
  IN IF prior = {} THEN m # Null /\ mems0[m].mapped
     ELSE tr[CHOOSE j \in prior : \A k \in prior : k <= j].call = "mapMemory"

\* C13: whatever the sequence of constructions, transfers, moves, move
\* assignments, swaps and destructions of HostArray and DeviceArray objects,
\* no freeMemory names memory that is mapped at that moment; the destructor
\* of an array with a mapped pointer issues unmapMemory before freeMemory.
UnmappedBeforeFreed ==
  [][/\ \A i \in CallsOf(last'.tr, "freeMemory") : ~MappedAt(mems, last'.tr, i)
     /\ (last'.op = "destroy" /\ arrays[last'.s].ptr) =>
          \E u, f \in 1..Len(last'.tr) :
            /\ u < f
            /\ last'.tr[u] = Ev("unmapMemory", arrays[last'.s].mem, Null, 0, 0, 0)
            /\ last'.tr[f] = Ev("freeMemory", arrays[last'.s].mem, Null, 0, 0, 0)]_vars
DestroyedMappedDeviceArray ==
  /\ last.op = "destroy" /\ last.f = "Device"
  /\ CallsOf(last.tr, "unmapMemory") # {}
  /\ CallsOf(last.tr, "freeMemory") # {}

\* C14: DeviceArray(device, n, fun), when it returns or gets as far as the
\* copy, has gone through a staging HostArray and one copy on the device,
\* whether its own memory is host-visible or not: two
\* buffers and two allocations (the array's, then the staging array's), one
\* copy of size_bytes() from the staging buffer to the array's buffer, and
\* every mapping and every host store is on the staging memory.
IndexedConstructionStages ==
  (last.op = "DeviceArrayIndexed"
   /\ (last.exc = "none" \/ CallsOf(last.tr, "copyBuf") # {})) =>
    LET cb == CallsOf(last.tr, "createBuffer")
        am == CallsOf(last.tr, "allocateMemory")
    IN /\ Cardinality(cb) = 2 /\ Cardinality(am) = 2
       /\ Cardinality(CallsOf(last.tr, "copyBuf")) = 1
       /\ \A c \in CallsOf(last.tr, "copyBuf"), b1 \in cb, b2 \in cb :
            b1 < b2 => /\ b2 < c
                       /\ last.tr[c].h = last.tr[b2].h /\ last.tr[c].h2 = last.tr[b1].h
                       /\ last.tr[c].size = last.size * SizeofT
       /\ \A i \in CallsOf(last.tr, "mapMemory") \cup CallsOf(last.tr, "hostWrite"),
             m1 \in am, m2 \in am :
            m1 < m2 => last.tr[i].h = last.tr[m2].h /\ last.tr[i].h # last.tr[m1].h
IndexedOnHostVisible ==
  /\ last.op = "DeviceArrayIndexed" /\ last.exc = "none" /\ LastHostVisible
  /\ Cardinality(CallsOf(last.tr, "copyBuf")) = 1
  /\ ~arrays[last.s].ptr

\* C15: DeviceArray(device, n, fun) calls fun once per index, in increasing
\* order of the indices 0..n-1, and a toHost() that follows the construction
\* reads fun(i) at every index i, whether the array's memory is host-visible
\* or not.
IsFunCall(e) == e.call = "fun"
IndexedContentsReadBack ==
  [][/\ (last'.op = "DeviceArrayIndexed" /\ last'.exc = "none") =>
          /\ last'.funCalls = last'.size
          /\ LET calls == SelectSeq(last'.tr, IsFunCall) IN
             [k \in 1..Len(calls) |-> calls[k].soff] = [k \in 1..last'.size |-> k - 1]
     /\ (/\ last.op = "DeviceArrayIndexed" /\ last.exc = "none"
         /\ last'.op = "toHost" /\ last'.exc = "none") =>
          last'.out = [k \in 1..last.size |-> ApplyFun(last.f, k - 1)]]_vars

\* C16: every initializing HostArray constructor (fill, range, transforming
\* range, callback) ends, after all its stores, with the flush of the writes
\* (one flushMappedMemoryRanges of its memory when that is not host-coherent,
\* no cache call when it is); an array constructed with a fill value then
\* reads back that value at every index through operator[].
HostInits == {"HostArrayFill", "HostArrayRange", "HostArrayTransform", "HostArrayFun"}
InitializedThenFlushed ==
  [][/\ (last'.op \in HostInits /\ last'.exc = "none") =>
          \A w \in CallsOf(last'.tr, "hostWrite") :
            CacheCallsFrom(last'.tr, w + 1)
              = IF HostCoherent \in arrays'[last'.s].flags THEN << >>
                ELSE << Ev("flushMappedMemoryRanges", arrays'[last'.s].mem, Null, 0, 0, 0) >>
     /\ (last.op = "HostArrayFill" /\ last.exc = "none" /\ last'.op = "subscript") =>
          last'.out = last.vals]_vars

\* whether the handle named by entry i of the log tr is live when the entry
\* is issued; tbl0 is the table of handles before the call, create the call
\* that makes such a handle
LiveAt(tbl0, tr, i, create) ==
  LET h == tr[i].h
      prior == {j \in 1..(i - 1) : tr[j].h = h /\ tr[j].call \in {create, tr[i].call}}
  IN IF prior = {} THEN h # Null /\ tbl0[h].live
     ELSE tr[CHOOSE j \in prior : \A k \in prior : k <= j].call = create
Holders(arr, h) == {s \in AllSlots : arr[s].life = "live" /\ arr[s].buf = h}
MemHolders(arr, h) ==
  {s \in AllSlots : arr[s].life = "live" /\ arr[s].buf # Null /\ arr[s].mem = h}

\* C17: after every construction, move construction, move assignment
\* (self-assignment included), swap and destruction, every live buffer and
\* every live memory allocation is held by exactly one array object (so none
\* is left once all arrays are destroyed), and no buffer or allocation is
\* released that is not live (none is released twice).
ExclusiveOwnership ==
  [][/\ \A h \in Handles : bufs'[h].live => Cardinality(Holders(arrays', h)) = 1
     /\ \A h \in Handles : mems'[h].live => Cardinality(MemHolders(arrays', h)) = 1
     /\ \A i \in CallsOf(last'.tr, "destroyBuffer") :
          LiveAt(bufs, last'.tr, i, "createBuffer")
     /\ \A i \in CallsOf(last'.tr, "freeMemory") :
          last'.tr[i].h = Null \/ LiveAt(mems, last'.tr, i, "allocateMemory")]_vars

\* C18: a Device whose compute and transfer family ids are the same has its
\* compute command pool as transfer command pool and its compute command
\* buffer as transfer command buffer: after construction, and after every
\* releaseComputeCmdBuffer(), move construction, move assignment and swap.
PoolsMerged ==
  \A s \in DevSlots :
    (IsLiveDev(s) /\ devices[s].cmp_family_id = devices[s].tfr_family_id) =>
      /\ transferCmdPool(DevW0, s) = devices[s].cmdpool_compute
      /\ transferCmdBuffer(DevW0, s) = devices[s].cmdbuf_compute
ReleasedOnMergedDevice ==
  /\ dlast.op = "releaseComputeCmdBuffer" /\ dlast.exc = "none"
  /\ devices[dlast.s].cmp_family_id = devices[dlast.s].tfr_family_id
  /\ dlast.ret # Null /\ dlast.ret # devices[dlast.s].cmdbuf_compute
  /\ devices[dlast.s].cmdbuf_transfer = devices[dlast.s].cmdbuf_compute

\* C20: hasSeparateQueues() is true exactly when the compute family id and
\* the transfer family id of the Device differ.
SeparateQueuesAnswer ==
  dlast.op = "hasSeparateQueues" =>
    (dlast.ret <=> devices[dlast.s].cmp_family_id # devices[dlast.s].tfr_family_id)

\* C19: every copy in flight uses the one transfer command buffer of the
\* Device, which has no lock of its own; as long as every call was made
\* under the callers' lock, at most one copy is in flight and no command
\* buffer call meets the buffer in a wrong state.  Without that, two copies
\* are in flight on the same command buffer.
OneTransferWhenSerialized ==
  /\ \A t \in InFlight : xfer.cb[t] = devices["d1"].cmdbuf_transfer
  /\ xfer.allLocked => Cardinality(InFlight) <= 1 /\ ~xfer.misuse
TwoTransfersInFlight ==
  /\ InFlight = Threads
  /\ xfer.cb["t1"] = xfer.cb["t2"] /\ xfer.cb["t1"] = devices["d1"].cmdbuf_transfer
  /\ ~xfer.allLocked /\ xfer.misuse

\* the families that getFamilyID() may choose: some queue, and flags that
\* share a bit with the target
HasBit(flags, b) == (flags \div b) % 2 = 1
Acceptable(queue_families, tgtFlag) ==
  {i \in 0..(Len(queue_families) - 1) :
     /\ queue_families[i + 1].queueCount > 0
     /\ \E b \in {1, 2, 4} : HasBit(queue_families[i + 1].queueFlags, b) /\ HasBit(tgtFlag, b)}

\* C21: getFamilyID() returns an acceptable family (queueCount > 0, flags
\* that intersect the target) whose flags have the least numeric value, the
\* lowest index among equals, and returns -1 exactly when no family is
\* acceptable.
FamilyWithMinFlags ==
  dlast.op = "getFamilyID" =>
    LET fs == dlast.families
        acc == Acceptable(fs, dlast.tgtFlag)
    IN IF acc = {} THEN dlast.ret = Minus1
       ELSE /\ dlast.ret \in acc
            /\ \A j \in acc :
                 \/ fs[dlast.ret + 1].queueFlags < fs[j + 1].queueFlags
                 \/ fs[dlast.ret + 1].queueFlags = fs[j + 1].queueFlags /\ dlast.ret <= j
FirstOfEqualFamilies ==
  /\ dlast.op = "getFamilyID"
  /\ Acceptable(dlast.families, dlast.tgtFlag) = {0, 1}
  /\ dlast.families[1].queueFlags = dlast.families[2].queueFlags
  /\ dlast.ret = 0

\* the memory types selectMemory() may return for a buffer: the bit of the
\* type is set in memoryTypeBits and the type has every flag asked for
Suitable(typeBits, properties) ==
  {i \in 0..(Len(memTypes) - 1) : i \in typeBits /\ properties \subseteq memTypes[i + 1]}

\* C22: selectMemory(buffer, properties) returns the lowest memory type
\* index whose bit is set in the buffer's memoryTypeBits and whose flags
\* contain all of properties, and -1 exactly when there is none; an index
\* returned never names a type that lacks a flag asked for.
LowestSuitableMemory ==
  last.op = "selectMemory" =>
    LET ok == Suitable(bufs[arrays[last.s].buf].typeBits, last.props) IN
    /\ ok = {} <=> last.ret = Minus1
    /\ last.ret # Minus1 =>
         /\ last.ret \in ok /\ \A j \in ok : last.ret <= j
         /\ last.props \subseteq memTypes[last.ret + 1]
SelectedPastExcludedType ==
  /\ last.op = "selectMemory" /\ last.ret = 1
  /\ last.props # {} /\ last.props \subseteq memTypes[1]
  /\ 0 \notin bufs[arrays[last.s].buf].typeBits

\* the command buffer an event frees is live when the event happens: live
\* before the operation or allocated in it, and neither freed nor taken
\* away with its pool earlier in the operation
CmdBufLiveAt(cbufs0, tr, i) ==
  LET h == tr[i].h
      made == {j \in 1..(i - 1) : tr[j].call = "allocateCommandBuffers" /\ tr[j].h = h}
      gone == {j \in 1..(i - 1) :
                 \/ tr[j].call = "freeCommandBuffers" /\ tr[j].h = h
                 \/ /\ tr[j].call = "destroyCommandPool" /\ tr[j].h # Null
                    /\ tr[j].h = (IF made = {} THEN cbufs0[h].pool
                                  ELSE tr[CHOOSE k \in made : TRUE].h2)}
  IN (cbufs0[h].live \/ made # {}) /\ gone = {}
OwnsOneOfEach(dv, cbufs, s) ==
  /\ dv[s].cmdbuf_compute # Null /\ cbufs[dv[s].cmdbuf_compute].live
  /\ cbufs[dv[s].cmdbuf_compute].pool = dv[s].cmdpool_compute
  /\ dv[s].cmdbuf_transfer # Null /\ cbufs[dv[s].cmdbuf_transfer].live
  /\ cbufs[dv[s].cmdbuf_transfer].pool = dv[s].cmdpool_transfer

\* C23: releaseComputeCmdBuffer() returns the compute command buffer the
\* Device had before the call and leaves the Device with a newly allocated
\* one, different from the one returned; the Device still owns one live
\* compute and one live transfer command buffer, neither of them the one
\* returned; and no operation on a Device, release() and the freeCmdBuffer()
\* of a caller included, frees a command buffer that is not live (the one
\* returned is never freed twice).
ReleaseHandsOverOldBuffer ==
  [][ /\ (dlast'.op = "releaseComputeCmdBuffer" /\ dlast'.exc = "none") =>
          LET s == dlast'.s IN
          /\ dlast'.ret = devices[s].cmdbuf_compute
          /\ devices'[s].cmdbuf_compute # dlast'.ret
          /\ ~vk.cbufs[devices'[s].cmdbuf_compute].used
          /\ OwnsOneOfEach(devices', vk'.cbufs, s)
          /\ devices'[s].cmdbuf_transfer # dlast'.ret
          /\ vk'.cbufs[dlast'.ret].live
      /\ \A i \in DOMAIN dlast'.tr :
           (dlast'.tr[i].call = "freeCommandBuffers" /\ dlast'.tr[i].h # Null) =>
             CmdBufLiveAt(vk.cbufs, dlast'.tr, i) ]_vars
ReturnedBufferGivenBack ==
  /\ dlast.op = "freeCmdBuffer" /\ ~dlast.ub
  /\ ~vk.cbufs[dlast.tr[1].h].live
  /\ dlast.tr[1].h \notin {devices[dlast.s].cmdbuf_compute, devices[dlast.s].cmdbuf_transfer}
  /\ OwnsOneOfEach(devices, vk.cbufs, dlast.s)

\* the Device objects that hold the logical device dev
DevHolders(dv, dev) == {s \in DevSlots : dv[s].life = "live" /\ dv[s].handle = dev}

\* C24: over construction, move construction, move assignment, swap and
\* destruction of Device objects every command pool and every logical
\* device is destroyed exactly once: a destroy call names a pool or a device
\* that is live at that point (the pool shared by equal families is destroyed
\* once), every live logical device is held by exactly one object and every
\* live pool is a pool of such an object (nothing is left when all objects
\* are gone), and the destructor of a moved-from object calls nothing.
ReleasedExactlyOnce ==
  [][ /\ \A i \in DOMAIN dlast'.tr :
           /\ (dlast'.tr[i].call = "destroyCommandPool" /\ dlast'.tr[i].h # Null) =>
                LiveAt(vk.pools, dlast'.tr, i, "createCommandPool")
           /\ dlast'.tr[i].call = "destroyDevice" =>
                LiveAt(vk.ldevs, dlast'.tr, i, "createDevice")
      /\ \A h \in LDevHandles :
           vk'.ldevs[h].live => Cardinality(DevHolders(devices', h)) = 1
      /\ \A p \in PoolHandles :
           vk'.pools[p].live =>
             \E s \in DevSlots :
               /\ devices'[s].life = "live" /\ devices'[s].handle # Null
               /\ vk'.ldevs[devices'[s].handle].live
               /\ p \in {devices'[s].cmdpool_compute, devices'[s].cmdpool_transfer}
      /\ (dlast'.op = "destroy" /\ devices[dlast'.s].handle = Null) => dlast'.tr = << >>
    ]_vars
MovedFromDestroyedLast ==
  /\ dlast.op = "destroy" /\ dlast.tr = << >>
  /\ \E h \in LDevHandles : vk.ldevs[h].used /\ ~vk.ldevs[h].live
  /\ \A s \in DevSlots : devices[s].life = "none"

\* the handles of one kind that the calls of a log created (a call that
\* failed created none)
MadeIn(tr, create) ==
  {tr[i].h : i \in {j \in DOMAIN tr : tr[j].call = create /\ tr[j].h # Null}}

\* C25: when the creation of a command pool or the allocation of a command
\* buffer fails in the constructor of Device, the logical device and the
\* pools and buffers created so far are released once before the error
\* leaves the constructor (none of them is live afterwards, none is released
\* when not live), and the release frees and destroys only what was created:
\* no command buffer is freed from a pool that was never created.
FailedConstructionCleansUp ==
  (dlast.op = "Device" /\ dlast.exc # "none" /\ MadeIn(dlast.tr, "createDevice") # {}) =>
    /\ \A h \in MadeIn(dlast.tr, "createDevice") : ~vk.ldevs[h].live
    /\ \A h \in MadeIn(dlast.tr, "createCommandPool") : ~vk.pools[h].live
    /\ \A h \in MadeIn(dlast.tr, "allocateCommandBuffers") : ~vk.cbufs[h].live
    /\ \A i \in DOMAIN dlast.tr :
         /\ dlast.tr[i].call = "freeCommandBuffers" =>
              /\ dlast.tr[i].h2 \in MadeIn(SubSeq(dlast.tr, 1, i - 1), "createCommandPool")
              /\ dlast.tr[i].h # Null =>
                   dlast.tr[i].h \in MadeIn(SubSeq(dlast.tr, 1, i - 1), "allocateCommandBuffers")
         /\ (dlast.tr[i].call = "destroyCommandPool" /\ dlast.tr[i].h # Null) =>
              dlast.tr[i].h \in MadeIn(SubSeq(dlast.tr, 1, i - 1), "createCommandPool")
         /\ dlast.tr[i].call = "destroyDevice" =>
              dlast.tr[i].h \in MadeIn(SubSeq(dlast.tr, 1, i - 1), "createDevice")

\* the elements [b, e) of the array in slot s as the device has them
DeviceElements(s, b, e) ==
  [k \in 1..(e - b) |->
     Decode([i \in 1..SizeofT |-> mems[arrays[s].mem].dev[(b + k - 1) * SizeofT + i]])]

\* C26: rangeToHost(offset_begin, offset_end, dst) with offset_begin <=
\* offset_end <= size() writes to dst the elements [offset_begin, offset_end)
\* of the array, on the host-visible path and on the staged path; on the
\* staged path the copy is given the source offset offset_begin * sizeof(T)
\* and the byte count (offset_end - offset_begin) * sizeof(T).
RangeReadsItsElements ==
  [][(/\ last'.op = "rangeToHost" /\ last'.exc = "none"
      /\ last'.offset <= last'.size /\ last'.size <= arrays[last'.s].size)
     => /\ last'.out = DeviceElements(last'.s, last'.offset, last'.size)
        /\ HostVisible \notin arrays[last'.s].flags =>
             \E i \in CallsOf(last'.tr, "copyBuf") :
               /\ last'.tr[i].soff = last'.offset * SizeofT
               /\ last'.tr[i].size = (last'.size - last'.offset) * SizeofT]_vars

\* the elements the device has after a write of vals at element offset of the
\* array in slot s: what was there, and those of vals that fit
ElementsAfterWrite(s, offset, vals) ==
  [k \in 1..arrays[s].size |->
     IF offset < k /\ k <= offset + Len(vals)
     THEN vals[k - offset]
     ELSE DeviceElements(s, k - 1, k)[1]]

\* C27: fromHost(begin, end, offset) with offset < size() leaves the same
\* contents on the host-visible path and on the staged path, whatever the
\* length of the range: the elements of the range that fit from offset on,
\* the old elements elsewhere (before offset in particular); no write, of the
\* host or of the copy, goes beyond the size() elements of the array.
OffsetWriteStaysInside ==
  [][(/\ last'.op = "fromHostOffset" /\ last'.exc = "none"
      /\ last'.offset < arrays[last'.s].size)
     => /\ [k \in 1..arrays[last'.s].size |->
             Decode([i \in 1..SizeofT |->
                       mems'[arrays[last'.s].mem].dev[(k - 1) * SizeofT + i]])]
           = ElementsAfterWrite(last'.s, last'.offset, last'.vals)
        /\ \A i \in DOMAIN last'.tr :
             /\ (last'.tr[i].call = "hostWrite" /\ last'.tr[i].h = arrays[last'.s].mem) =>
                  last'.tr[i].soff + last'.tr[i].size <= arrays[last'.s].size
             /\ (last'.tr[i].call = "copyBuf" /\ last'.tr[i].h2 = arrays[last'.s].buf) =>
                  last'.tr[i].doff + last'.tr[i].size <= arrays[last'.s].size * SizeofT]_vars

\* the size of buffer h when event i of a log happens: that of its creation
\* in the log, or the one it had before
BufSizeAt(bufs0, tr, i, h) ==
  LET made == {j \in 1..(i - 1) : tr[j].call = "createBuffer" /\ tr[j].h = h}
  IN IF made = {} THEN bufs0[h].size
     ELSE tr[CHOOSE j \in made : \A k \in made : k <= j].size

\* C28: every copy between buffers that an operation of DeviceArray issues
\* (the fromHost and toHost variants, rangeToHost, the index based
\* constructor) stays inside both buffers: srcOffset + size <= size_bytes of
\* the source and dstOffset + size <= size_bytes of the destination.
CopiesStayInsideBuffers ==
  [][\A i \in DOMAIN last'.tr :
       last'.tr[i].call = "copyBuf" =>
         /\ last'.tr[i].soff + last'.tr[i].size
              <= BufSizeAt(bufs, last'.tr, i, last'.tr[i].h)
         /\ last'.tr[i].doff + last'.tr[i].size
              <= BufSizeAt(bufs, last'.tr, i, last'.tr[i].h2)]_vars


\* ------------------------------------------------------------ unmap policy
\* require_unmap_flush is a protected member that BasicArray initialises to
\* false and that nothing in the library assigns: a class derived from
\* DeviceArray sets it in its constructor, right after the array's.
SetUnmapPolicy(s) ==
  /\ IsDeviceArray(s)
  /\ last.op = "DeviceArray" /\ last.s = s /\ last.exc = "none"
  /\ arrays' = [arrays EXCEPT ![s].require_unmap_flush = TRUE]
  /\ last' = [last EXCEPT !.op = "setUnmapPolicy", !.tr = << >>]
  /\ UNCHANGED << memTypes, bufs, mems, devVars, xfer >>

NextPolicy ==
  \E s \in Slots :
    \/ ConstructHost(s, Plain)
    \/ ConstructDevice(s, Plain)
    \/ SetUnmapPolicy(s)
    \/ Destroy(s)
    \/ \E t \in Slots \ {s} : MoveConstruct(s, t)
    \/ \E t \in Slots : MoveAssign(s, t)
    \/ \E t \in Slots : Swap(s, t)
    \/ Subscript(s, Plain)
    \/ Transfer(s, Plain)

SpecPolicy == Init /\ [][NextPolicy]_vars

\* ------------------------------------------------------------ mapping state
\* the array in slot s owns memory and that memory is mapped
OwnMemoryMapped(arr, mems0, s) ==
  arr[s].buf # Null /\ arr[s].mem # Null /\ mems0[arr[s].mem].mapped
\* the host's reads and writes of memory m in the log tr
HostAccesses(tr, m) ==
  {i \in CallsOf(tr, "hostWrite") \cup CallsOf(tr, "hostRead") : tr[i].h = m}
IsMappingArray(arr, s) == arr[s].life = "live" /\ arr[s].kind \in {"Host", "Device"}

\* C29: across construction, transfers, moves, swaps and destructions of
\* HostArray and DeviceArray objects the cached pointer of an array is
\* non-null exactly when the array's memory is mapped; no mapMemory names
\* memory that is mapped and no unmapMemory names memory that is not; when a
\* transfer that went to the array's memory on the direct path returns, the
\* array is unmapped if require_unmap_flush is set, and if it is not set a
\* transfer on an array that is already mapped leaves it mapped and issues
\* no mapMemory.
PointerIffMapped ==
  [][/\ \A s \in Slots :
          IsMappingArray(arrays', s) => (arrays'[s].ptr <=> OwnMemoryMapped(arrays', mems', s))
     /\ \A i \in CallsOf(last'.tr, "mapMemory") : ~MappedAt(mems, last'.tr, i)
     /\ \A i \in CallsOf(last'.tr, "unmapMemory") : MappedAt(mems, last'.tr, i)
     /\ (/\ last'.op \in TransferOps /\ last'.exc = "none"
         /\ HostVisible \in arrays[last'.s].flags
         /\ HostAccesses(last'.tr, arrays[last'.s].mem) # {}) =>
          IF arrays[last'.s].require_unmap_flush
          THEN ~arrays'[last'.s].ptr
          ELSE arrays[last'.s].ptr =>
                 arrays'[last'.s].ptr /\ CallsOf(last'.tr, "mapMemory") = {}]_vars
TransferUnmapsUnderPolicy ==
  /\ last.op \in TransferOps /\ last.exc = "none"
  /\ arrays[last.s].require_unmap_flush
  /\ HostAccesses(last.tr, arrays[last.s].mem) # {}
  /\ \E i \in CallsOf(last.tr, "mapMemory"), j \in CallsOf(last.tr, "unmapMemory") :
       i < j /\ last.tr[i].h = arrays[last.s].mem /\ last.tr[j].h = arrays[last.s].mem
  /\ ~arrays[last.s].ptr /\ ~mems[arrays[last.s].mem].mapped
SecondTransferOnMappedArray ==
  /\ last.op \in TransferOps /\ last.exc = "none"
  /\ HostVisible \in arrays[last.s].flags
  /\ arrays[last.s].ptr /\ mems[arrays[last.s].mem].mapped
  /\ CallsOf(last.tr, "mapMemory") = {}
  /\ HostAccesses(last.tr, arrays[last.s].mem) # {}


\* ------------------------------------------------------------ lazy mapping
\* the slots whose array owns memory m
OwnersOf(arr, m) == {s \in Slots : arr[s].buf # Null /\ arr[s].mem = m}
\* the construction of an array without initial values logs no mapMemory
\* and leaves the array unmapped
UninitializedUnmapped(op) ==
  (last.op = op /\ last.exc = "none") =>
    /\ CallsOf(last.tr, "mapMemory") = {}
    /\ ~arrays[last.s].ptr
\* a mapMemory of memory that an array owned before the operation is
\* followed, in the operation, by a host access of that memory
MappedForAccess ==
  [][\A i \in CallsOf(last'.tr, "mapMemory") :
       OwnersOf(arrays, last'.tr[i].h) # {} =>
         \E j \in HostAccesses(last'.tr, last'.tr[i].h) : i < j]_vars

\* C30: constructing a HostArray or a DeviceArray without initial values
\* issues no mapMemory and leaves the array unmapped: the mapping is made
\* by the first host access and not before.
LazyMapping ==
  UninitializedUnmapped("HostArray") /\ UninitializedUnmapped("DeviceArray")


\* ------------------------------------------------------------ queue families
\* the families for which queues were requested when logical device h was created
RequestedFamilies(h) == vk.ldevs[h].queues
\* the calls of the last operation that name a queue family of a logical device
FamilyUses ==
  {i \in CallsOf(dlast.tr, "createCommandPool") \cup CallsOf(dlast.tr, "getQueue") :
     dlast.tr[i].h # Null}
FamilyUseDevice(e) == IF e.call = "getQueue" THEN e.h ELSE e.h2
RecordsRequestedFamilies(s) ==
  RequestedFamilies(devices[s].handle) =
    {devices[s].cmp_family_id, devices[s].tfr_family_id}

\* C31: the compute and transfer family ids a Device records are the
\* families its logical device was created with queues of, and every command
\* pool it creates and every queue it asks for names one of them, also when
\* no compute or no transfer family was found.
FamiliesAsRequested ==
  /\ \A s \in DevSlots :
       (IsLiveDev(s) /\ devices[s].handle # Null) => RecordsRequestedFamilies(s)
  /\ \A i \in FamilyUses :
       dlast.tr[i].soff \in RequestedFamilies(FamilyUseDevice(dlast.tr[i]))


\* ------------------------------------------------------------ move assignment
\* the log tr frees memory m and destroys buffer b
Releases(tr, b, m) ==
  /\ \E i \in CallsOf(tr, "freeMemory") : tr[i].h = m
  /\ \E i \in CallsOf(tr, "destroyBuffer") : tr[i].h = b
\* the move assignment of the step, to an array of the kinds given that holds
\* a buffer, releases that buffer and its memory in the step
AssignmentReleases(kinds) ==
  (/\ last'.op = "moveAssign" /\ last'.s # last'.t
   /\ arrays[last'.s].kind \in kinds
   /\ arrays[last'.s].buf # Null) =>
    /\ Releases(last'.tr, arrays[last'.s].buf, arrays[last'.s].mem)
    /\ ~bufs'[arrays[last'.s].buf].live
    /\ ~mems'[arrays[last'.s].mem].live

\* C32: a move assignment to a BasicArray, HostArray or DeviceArray that
\* holds a buffer and memory frees that memory and destroys that buffer
\* during the assignment, not when the moved-from object is destroyed.
AssignmentReleasesAtOnce == [][AssignmentReleases({"Basic", "Host", "Device"})]_vars

====
